---- MODULE Spec2Model ----
(***************************************************************************)
(* Model of the in-memory write path of mag1c1an1/rockscopy:               *)
(*   - Arena     (util/arena.h, util/arena.cpp)                            *)
(*   - SkipList  (db/skiplist.h), allocating its nodes from an Arena       *)
(*   - the encoding primitives (util/coding.h, util/coding.cpp)            *)
(* Pointers are modelled as integer addresses; nullptr is 0.               *)
(***************************************************************************)
EXTENDS Integers, Sequences, FiniteSets, TLC

VARIABLES
    arena,      \* the Arena object: alloc_ptr_, alloc_bytes_remaining_, blocks_, blocks_memory_
    allocs,     \* history: every (pointer, size) handed out by the arena, in call order
    key,        \* skip list: node address -> Node::key
    next_,      \* skip list: node address -> (level -> Node::next_[level])
    init_,      \* history: node address -> (level -> has next_[level] ever been written)
    max_height_,\* SkipList::max_height_
    prev_,      \* SkipList::prev_[kMaxHeight]
    writer,     \* the single writer's position inside Insert
    reader,     \* a reader's position inside Contains
    inserted,   \* history: keys of the Insert calls that have returned, in order
    cod,        \* one use of a routine on its own: its strings, slices, draws and out-parameters
    batch,      \* a WriteBatch (rep_) with the calls made on it and what a Handler was shown
    table       \* a MemTable: refs_, the flush flags, file_number_, and who holds a reference

vars == <<arena, allocs, key, next_, init_, max_height_, prev_, writer, reader, inserted, cod,
          batch, table>>

listVars == <<key, next_, init_, max_height_, prev_, writer, reader, inserted>>

(***************************************************************************)
(* Bounds of the model.                                                    *)
(***************************************************************************)
MaxAllocs == 4
MaxInserts == 3
MaxKey == 3
MaxDraws == 1

(***************************************************************************)
(* Program constants.                                                      *)
(***************************************************************************)
kBlockSize == 4096
align == 8
SizeofCharPtr == 8
NewAlignment == 16
kMaxHeight == 12
kBranching == 4
SizeofNode == 16
SizeofAtomicPointer == 8
nullptr == 0

Last(s) == s[Len(s)]

\* The value of cod while no codec is in use.
NoCoding == [kind |-> "none"]

\* The value of batch while no WriteBatch exists, and of table while no
\* MemTable exists.
NoBatch == [kind |-> "none"]

NoTable == [kind |-> "none"]

\* What a call yields when one of its assertions fails: the process aborts.
Aborted == nullptr - 1

(***************************************************************************)
(* The heap behind `new char[bytes]`: every block starts at an address     *)
(* aligned for any object and lies above every block handed out before.    *)
(***************************************************************************)
HeapBase == NewAlignment * 256

RoundUp(a, m) == ((a + m - 1) \div m) * m

NewCharArray(a) ==
    IF a.blocks_ = <<>> THEN HeapBase
    ELSE RoundUp(Last(a.blocks_) + Last(a.sizes), NewAlignment)

(***************************************************************************)
(* std::vector<char*>::push_back: the capacity a vector of `size` elements *)
(* and capacity `cap` may have after one more element is pushed.           *)
(***************************************************************************)
PushBackCapacity(size, cap) ==
    IF size < cap THEN {cap}
    ELSE IF size = 0 THEN {1}
    ELSE {size + 1, 2 * size}

(***************************************************************************)
(* Arena                                                                   *)
(***************************************************************************)
EmptyArena ==
    [alloc_ptr_ |-> nullptr,
     alloc_bytes_remaining_ |-> 0,
     blocks_ |-> <<>>,
     sizes |-> <<>>,
     capacity |-> 0,
     blocks_memory_ |-> 0]

MemoryUsage(a) == a.blocks_memory_ + a.capacity * SizeofCharPtr

\* AllocateNewBlock with a fault seeded: the block is not accounted in blocks_memory_.
AllocateNewBlockNoAccount(a, bytes, cap) ==
    [a |-> [a EXCEPT !.blocks_ = Append(@, NewCharArray(a)),
                     !.sizes = Append(@, bytes),
                     !.capacity = cap],
     result |-> NewCharArray(a)]

AllocateNewBlock(a, bytes, cap) ==
    [a |-> [a EXCEPT !.blocks_memory_ = @ + bytes,
                     !.blocks_ = Append(@, NewCharArray(a)),
                     !.sizes = Append(@, bytes),
                     !.capacity = cap],
     result |-> NewCharArray(a)]

\* AllocateFallback with a fault seeded: a request of exactly a quarter of a
\* block gets a dedicated block too.
AllocateFallbackAtQuarter(a, bytes, cap) ==
    IF bytes >= kBlockSize \div 4
    THEN AllocateNewBlock(a, bytes, cap)
    ELSE LET nb == AllocateNewBlock(a, kBlockSize, cap)
         IN  [a |-> [nb.a EXCEPT !.alloc_ptr_ = nb.result + bytes,
                                 !.alloc_bytes_remaining_ = kBlockSize - bytes],
              result |-> nb.result]

\* AllocateFallback with a fault seeded: a dedicated block becomes the
\* current block.
AllocateFallbackMovesIn(a, bytes, cap) ==
    LET nb == AllocateNewBlock(a, IF bytes > kBlockSize \div 4 THEN bytes ELSE kBlockSize, cap)
    IN  [a |-> [nb.a EXCEPT !.alloc_ptr_ = nb.result + bytes,
                            !.alloc_bytes_remaining_ = Last(nb.a.sizes) - bytes],
         result |-> nb.result]

AllocateFallback(a, bytes, cap) ==
    IF bytes > kBlockSize \div 4
    THEN AllocateNewBlock(a, bytes, cap)
    ELSE LET nb == AllocateNewBlock(a, kBlockSize, cap)
         IN  [a |-> [nb.a EXCEPT !.alloc_ptr_ = nb.result + bytes,
                                 !.alloc_bytes_remaining_ = kBlockSize - bytes],
              result |-> nb.result]

\* Allocate with a fault seeded: the in-place path forgets to advance the bump pointer.
AllocateNoBump(a, bytes, cap) ==
    IF bytes <= a.alloc_bytes_remaining_
    THEN [a |-> [a EXCEPT !.alloc_bytes_remaining_ = @ - bytes],
          result |-> a.alloc_ptr_]
    ELSE AllocateFallback(a, bytes, cap)

Allocate(a, bytes, cap) ==
    IF ~(bytes > 0) THEN [a |-> a, result |-> Aborted]
    ELSE IF bytes <= a.alloc_bytes_remaining_
    THEN [a |-> [a EXCEPT !.alloc_ptr_ = @ + bytes,
                          !.alloc_bytes_remaining_ = @ - bytes],
          result |-> a.alloc_ptr_]
    ELSE AllocateFallback(a, bytes, cap)

\* AllocateAligned with a fault seeded: the padding up to the alignment boundary is dropped.
AllocateAlignedNoSlop(a, bytes, cap) ==
    IF bytes <= a.alloc_bytes_remaining_
    THEN [a |-> [a EXCEPT !.alloc_ptr_ = @ + bytes,
                          !.alloc_bytes_remaining_ = @ - bytes],
          result |-> a.alloc_ptr_]
    ELSE AllocateFallback(a, bytes, cap)

AllocateAligned(a, bytes, cap) ==
    LET current_mod == a.alloc_ptr_ % align
        slop == IF current_mod = 0 THEN 0 ELSE align - current_mod
        needed == bytes + slop
    IN  IF needed <= a.alloc_bytes_remaining_
        THEN [a |-> [a EXCEPT !.alloc_ptr_ = @ + needed,
                              !.alloc_bytes_remaining_ = @ - needed],
              result |-> a.alloc_ptr_ + slop]
        ELSE AllocateFallback(a, bytes, cap)

(***************************************************************************)
(* SkipList<Key, Comparator>, with Key an integer and the comparator the   *)
(* integer order.  A node is identified by its address in the arena.       *)
(***************************************************************************)
NodeBytes(height) == SizeofNode + SizeofAtomicPointer * (height - 1)

\* The arena after SkipList's constructor has allocated the head node.
HeadAlloc == AllocateAligned(EmptyArena, NodeBytes(kMaxHeight), 1)

head_ == HeadAlloc.result

\* A non-null address that is no node of the list.
Wild == HeapBase - NewAlignment

Levels(h) == 0..(h - 1)

Nodes == DOMAIN key

Keys == 1..MaxKey

\* r & kBranching
BitAndBranching(r) == ((r \div kBranching) % 2) * kBranching

DrawValues == 0..7

\* The draws one call of RandomHeight consumes: every draw but the last
\* keeps the loop going, the last one stops it (or the cap does).
DrawSeqs ==
    {d \in UNION {[1..n -> DrawValues] : n \in 1..(MaxDraws + 1)} :
        /\ \A j \in 1..(Len(d) - 1) : BitAndBranching(d[j]) = 0
        /\ (BitAndBranching(d[Len(d)]) # 0 \/ Len(d) = kMaxHeight - 1)}

RECURSIVE RandomHeightFrom(_, _)
RandomHeightFrom(d, height) ==
    IF height < kMaxHeight /\ d # <<>> /\ BitAndBranching(d[1]) = 0
    THEN RandomHeightFrom(Tail(d), height + 1)
    ELSE height

RandomHeight(d) == RandomHeightFrom(d, 1)

Equal(a, b) == a = b

KeyIsAfterNode(k, n) == n # nullptr /\ key[n] < k

\* One iteration of the descent loop of FindGreatOrEqual.  st.prev is the
\* prev array when one was passed (withPrev), and is left alone otherwise.
\* Loading through an address that is no node, or a slot beyond the node's
\* height, has no defined outcome: the search faults.
SearchStep(st, k, withPrev) ==
    IF st.x \notin Nodes \/ st.level \notin DOMAIN next_[st.x]
    THEN [st EXCEPT !.status = "fault"]
    ELSE LET next == next_[st.x][st.level]
         IN  IF next # nullptr /\ next \notin Nodes
             THEN [st EXCEPT !.status = "fault"]
             ELSE IF KeyIsAfterNode(k, next)
             THEN [st EXCEPT !.x = next]
             ELSE LET st2 == IF withPrev
                             THEN [st EXCEPT !.prev = [@ EXCEPT ![st.level] = st.x]]
                             ELSE st
                  IN  IF st.level = 0
                      THEN [st2 EXCEPT !.status = "done", !.ret = next]
                      ELSE [st2 EXCEPT !.level = @ - 1]

\* More iterations than any terminating descent can take.
Fuel == (MaxInserts + 2) * kMaxHeight

RECURSIVE SearchRun(_, _, _, _)
SearchRun(st, k, withPrev, fuel) ==
    IF st.status # "run" THEN st
    ELSE IF fuel = 0 THEN [st EXCEPT !.status = "hang"]
    ELSE SearchRun(SearchStep(st, k, withPrev), k, withPrev, fuel - 1)

SearchStart(prev) ==
    [x |-> head_, level |-> max_height_ - 1, prev |-> prev, status |-> "run", ret |-> nullptr]

\* FindGreatOrEqual(key, prev): status "done" with the returned node in ret
\* and the prev array as the call leaves it, or "fault" / "hang".
FindGreatOrEqual(k, prev, withPrev) ==
    LET n0 == next_[prev[0]][0]
        fast == /\ withPrev
                /\ ~KeyIsAfterNode(k, n0)
                /\ (prev[0] = head_ \/ KeyIsAfterNode(k, prev[0]))
    IN  IF withPrev /\ n0 # nullptr /\ n0 \notin Nodes
        THEN [SearchStart(prev) EXCEPT !.status = "fault"]
        ELSE IF fast
        THEN [SearchStart(prev) EXCEPT !.status = "done", !.ret = n0]
        ELSE SearchRun(SearchStart(prev), k, withPrev, Fuel)

NoPrev == [i \in Levels(kMaxHeight) |-> head_]

\* Contains(key) run to its end on the current list.
Contains(k) ==
    LET r == FindGreatOrEqual(k, NoPrev, FALSE)
    IN  IF r.status # "done" THEN r.status
        ELSE IF r.ret # nullptr /\ Equal(k, key[r.ret]) THEN "true"
        ELSE "false"

\* One iteration of the loop of FindLessThan.  The assertion at its top
\* aborts the process when the node reached does not precede the key.
FindLessThanStep(st, k) ==
    IF st.x \notin Nodes \/ st.level \notin DOMAIN next_[st.x]
    THEN [st EXCEPT !.status = "fault"]
    ELSE IF ~(st.x = head_ \/ key[st.x] < k)
    THEN [st EXCEPT !.status = "abort"]
    ELSE LET next == next_[st.x][st.level]
         IN  IF next # nullptr /\ next \notin Nodes
             THEN [st EXCEPT !.status = "fault"]
             ELSE IF next = nullptr \/ key[next] >= k
             THEN IF st.level = 0
                  THEN [st EXCEPT !.status = "done", !.ret = st.x]
                  ELSE [st EXCEPT !.level = @ - 1]
             ELSE [st EXCEPT !.x = next]

RECURSIVE FindLessThanRun(_, _, _)
FindLessThanRun(st, k, fuel) ==
    IF st.status # "run" THEN st
    ELSE IF fuel = 0 THEN [st EXCEPT !.status = "hang"]
    ELSE FindLessThanRun(FindLessThanStep(st, k), k, fuel - 1)

\* FindLessThan(key) run to its end on the current list.
FindLessThan(k) == FindLessThanRun(SearchStart(NoPrev), k, Fuel)

\* One iteration of the loop of FindLast.
FindLastStep(st) ==
    IF st.x \notin Nodes \/ st.level \notin DOMAIN next_[st.x]
    THEN [st EXCEPT !.status = "fault"]
    ELSE LET next == next_[st.x][st.level]
         IN  IF next = nullptr
             THEN IF st.level = 0
                  THEN [st EXCEPT !.status = "done", !.ret = st.x]
                  ELSE [st EXCEPT !.level = @ - 1]
             ELSE [st EXCEPT !.x = next]

RECURSIVE FindLastRun(_, _)
FindLastRun(st, fuel) ==
    IF st.status # "run" THEN st
    ELSE IF fuel = 0 THEN [st EXCEPT !.status = "hang"]
    ELSE FindLastRun(FindLastStep(st), fuel - 1)

\* FindLast() run to its end on the current list.
FindLast == FindLastRun(SearchStart(NoPrev), Fuel)

IdleWriter == [pc |-> "idle", key |-> 0, height |-> 0, x |-> nullptr, i |-> 0]

IdleReader ==
    [pc |-> "idle", key |-> 0, x |-> nullptr, level |-> 0,
     after |-> FALSE, result |-> "none"]

Alive == writer.pc # "fault" /\ reader.pc # "fault"

\* State after SkipList's constructor.
Init ==
    /\ arena = HeadAlloc.a
    /\ allocs = <<[ptr |-> head_, bytes |-> NodeBytes(kMaxHeight), aligned |-> TRUE]>>
    /\ key = (head_ :> 0)
    /\ next_ = (head_ :> [l \in Levels(kMaxHeight) |-> nullptr])
    /\ init_ = (head_ :> [l \in Levels(kMaxHeight) |-> TRUE])
    /\ max_height_ = 1
    /\ prev_ = [i \in Levels(kMaxHeight) |-> head_]
    /\ writer = IdleWriter
    /\ reader = IdleReader
    /\ inserted = <<>>
    /\ cod = NoCoding
    /\ batch = NoBatch
    /\ table = NoTable

\* InsertFind with a fault seeded: the store that raises max_height_ is left out.
InsertFindNoStore ==
    /\ Alive
    /\ writer.pc = "idle"
    /\ Len(inserted) < MaxInserts
    /\ \E k \in Keys, d \in DrawSeqs :
          LET r == FindGreatOrEqual(k, prev_, TRUE)
              height == RandomHeight(d)
          IN  IF r.status # "done"
              THEN /\ writer' = [writer EXCEPT !.pc = r.status, !.key = k]
                   /\ UNCHANGED <<prev_, max_height_>>
              ELSE /\ writer' = [pc |-> "new", key |-> k, height |-> height,
                                 x |-> r.ret, i |-> 0]
                   /\ IF height > max_height_
                      THEN /\ prev_' = [i \in Levels(kMaxHeight) |->
                                          IF max_height_ <= i /\ i < height
                                          THEN head_ ELSE r.prev[i]]
                           /\ UNCHANGED max_height_
                      ELSE /\ prev_' = r.prev
                           /\ UNCHANGED max_height_
    /\ UNCHANGED <<arena, allocs, key, next_, init_, reader, inserted, cod, batch, table>>

\* Insert, up to the store that raises max_height_.
InsertFind ==
    /\ Alive
    /\ writer.pc = "idle"
    /\ Len(inserted) < MaxInserts
    /\ \E k \in Keys, d \in DrawSeqs :
          LET r == FindGreatOrEqual(k, prev_, TRUE)
              height == RandomHeight(d)
          IN  IF r.status # "done"
              THEN /\ writer' = [writer EXCEPT !.pc = r.status, !.key = k]
                   /\ UNCHANGED <<prev_, max_height_>>
              ELSE /\ writer' = [pc |-> "new", key |-> k, height |-> height,
                                 x |-> r.ret, i |-> 0]
                   /\ IF height > max_height_
                      THEN /\ prev_' = [i \in Levels(kMaxHeight) |->
                                          IF max_height_ <= i /\ i < height
                                          THEN head_ ELSE r.prev[i]]
                           /\ max_height_' = height
                      ELSE /\ prev_' = r.prev
                           /\ UNCHANGED max_height_
    /\ UNCHANGED <<arena, allocs, key, next_, init_, reader, inserted, cod, batch, table>>

\* What the memory of a fresh node may hold where nothing has been stored.
Garbage(x) == {nullptr, Wild} \cup Nodes

\* x = NewNode(key, height): the constructor sets the key and default-constructs
\* next_[0], the one array element the struct declares (a null std::atomic
\* under C++20, which the file's typename-less dependent return types need);
\* the slots above are raw arena memory that nothing has written.
InsertNewNode ==
    /\ Alive
    /\ writer.pc = "new"
    /\ \E cap \in PushBackCapacity(Len(arena.blocks_), arena.capacity) :
          LET r == AllocateAligned(arena, NodeBytes(writer.height), cap)
              x == r.result
          IN  /\ arena' = r.a
              /\ allocs' = Append(allocs, [ptr |-> x, bytes |-> NodeBytes(writer.height),
                                           aligned |-> TRUE])
              /\ key' = (x :> writer.key) @@ key
              /\ \E g \in [1..(writer.height - 1) -> Garbage(x)] :
                    next_' = (x :> [l \in Levels(writer.height) |->
                                      IF l = 0 THEN nullptr ELSE g[l]]) @@ next_
              /\ init_' = (x :> [l \in Levels(writer.height) |-> l = 0]) @@ init_
              /\ writer' = [writer EXCEPT !.pc = "link", !.x = x, !.i = 0]
    /\ UNCHANGED <<max_height_, prev_, reader, inserted, cod, batch, table>>

\* One iteration of the linking loop: the load whose value is dropped, then
\* prev_[i]->SetNext(i, x).
LinkLevel(nx, x, p, i) ==
    [nx EXCEPT ![p] = [@ EXCEPT ![i] = x]]

InsertLink ==
    /\ Alive
    /\ writer.pc = "link"
    /\ writer.i < writer.height
    /\ LET i == writer.i
           p == prev_[i]
       IN  IF i \notin DOMAIN next_[p]
           THEN /\ writer' = [writer EXCEPT !.pc = "fault"]
                /\ UNCHANGED <<next_, init_>>
           ELSE /\ next_' = LinkLevel(next_, writer.x, p, i)
                /\ init_' = [init_ EXCEPT ![p] = [@ EXCEPT ![i] = TRUE]]
                /\ writer' = [writer EXCEPT !.i = i + 1]
    /\ UNCHANGED <<arena, allocs, key, max_height_, prev_, reader, inserted, cod, batch, table>>

InsertFinish ==
    /\ Alive
    /\ writer.pc = "link"
    /\ writer.i = writer.height
    /\ prev_' = [prev_ EXCEPT ![0] = writer.x]
    /\ inserted' = Append(inserted, writer.key)
    /\ writer' = IdleWriter
    /\ UNCHANGED <<arena, allocs, key, next_, init_, max_height_, reader, cod, batch, table>>

Range(s) == {s[i] : i \in 1..Len(s)}

\* Contains: the call and the load of max_height_ that starts the descent.
ContainsBegin ==
    /\ Alive
    /\ reader.pc = "idle"
    /\ \E k \in Keys :
          reader' = [pc |-> "search", key |-> k, x |-> head_, level |-> max_height_ - 1,
                     after |-> k \in Range(inserted), result |-> "none"]
    /\ UNCHANGED <<arena, allocs, key, next_, init_, max_height_, prev_, writer, inserted, cod, batch, table>>

\* One iteration of the descent, and at its end the comparison Contains makes.
ContainsStep ==
    /\ Alive
    /\ reader.pc = "search"
    /\ LET st == SearchStep([x |-> reader.x, level |-> reader.level, prev |-> <<>>,
                             status |-> "run", ret |-> nullptr], reader.key, FALSE)
       IN  reader' =
             IF st.status = "fault" THEN [reader EXCEPT !.pc = "fault"]
             ELSE IF st.status = "done"
             THEN [reader EXCEPT !.pc = "done",
                                 !.result = IF st.ret # nullptr /\ Equal(reader.key, key[st.ret])
                                            THEN "true" ELSE "false"]
             ELSE [reader EXCEPT !.x = st.x, !.level = st.level]
    /\ UNCHANGED <<arena, allocs, key, next_, init_, max_height_, prev_, writer, inserted, cod, batch, table>>

ContainsReturn ==
    /\ Alive
    /\ reader.pc = "done"
    /\ reader' = IdleReader
    /\ UNCHANGED <<arena, allocs, key, next_, init_, max_height_, prev_, writer, inserted, cod, batch, table>>

\* The single writer alone.
Next == InsertFind \/ InsertNewNode \/ InsertLink \/ InsertFinish

Spec == Init /\ [][Next]_vars

\* The single writer and a reader that takes no lock.
NextConcurrent ==
    \/ InsertFind \/ InsertNewNode \/ InsertLink \/ InsertFinish
    \/ ContainsBegin \/ ContainsStep \/ ContainsReturn

SpecConcurrent == Init /\ [][NextConcurrent]_vars

(***************************************************************************)
(* Skip list properties                                                    *)
(***************************************************************************)
\* The nodes on the level-L forward-pointer chain that starts at the head.
RECURSIVE ReachFrom(_, _, _)
ReachFrom(x, L, seen) ==
    IF x \notin Nodes \/ x \in seen THEN seen
    ELSE IF L \notin DOMAIN next_[x] THEN seen \cup {x}
    ELSE ReachFrom(next_[x][L], L, seen \cup {x})

Reach(L) == ReachFrom(head_, L, {})

\* The keys met on the level-0 chain after the head, in chain order.
RECURSIVE ChainKeysFrom(_, _)
ChainKeysFrom(x, fuel) ==
    IF x \notin Nodes \/ fuel = 0 THEN <<>>
    ELSE <<key[x]>> \o ChainKeysFrom(next_[x][0], fuel - 1)

Chain0Keys == ChainKeysFrom(next_[head_][0], MaxInserts + 1)

Count(k, s) == Cardinality({i \in 1..Len(s) : s[i] = k})

Ascending(s) == \A i \in 1..(Len(s) - 1) : s[i] <= s[i + 1]

\* C30: each iteration of Insert's linking loop leaves the new node's
\* level-i forward pointer equal to what prev_[i]'s level-i forward pointer
\* was, and prev_[i]'s level-i forward pointer equal to the new node, so
\* that whatever followed prev_[i] at level i now follows the new node.
C30_LinkKeepsSuccessor ==
    [][(writer.pc = "link" /\ writer'.pc = "link" /\ writer'.i = writer.i + 1) =>
         /\ next_'[writer.x][writer.i] = next_[prev_[writer.i]][writer.i]
         /\ next_'[prev_[writer.i]][writer.i] = writer.x]_vars

\* C31: whenever FindGreatOrEqual(key, prev_) returns inside Insert, by the
\* cached-predecessor path or by the full descent, for every level i below
\* the max height of that moment prev_[i] is the head or a node with a key
\* smaller than the key being inserted, and prev_[i]'s level-i forward
\* pointer is null or points to a node whose key is not smaller: prev_[i]
\* is the true level-i predecessor of the key.
C31_PrevIsPredecessor ==
    [][(writer.pc = "idle" /\ writer'.pc = "new") =>
         \A i \in Levels(max_height_) :
            LET p == prev_'[i]
                n == next_[p][i]
            IN  /\ p = head_ \/ key[p] < writer'.key
                /\ n = nullptr \/ (n \in Nodes /\ key[n] >= writer'.key)]_vars

\* The height a node was allocated with.
HeightOf(n) == Cardinality(DOMAIN next_[n])

Max(S) == CHOOSE m \in S : \A o \in S : o <= m

\* C33: the max-height counter starts at 1, never decreases, never exceeds
\* kMaxHeight, and after every completed Insert equals the greatest of 1 and
\* the heights of the inserted nodes; the head's forward pointers at the
\* levels at or above the counter are null.
C33_MaxHeightCounter ==
    /\ max_height_ = 1
    /\ [][max_height_' >= max_height_]_vars
    /\ [](max_height_ <= kMaxHeight)
    /\ [](writer.pc = "idle" =>
            max_height_ = Max({1} \cup {HeightOf(n) : n \in Nodes \ {head_}}))
    /\ [](\A l \in Levels(kMaxHeight) : l >= max_height_ => next_[head_][l] = nullptr)

\* Two Inserts have completed, one of them of a node of height 2: the counter
\* is 2, the head is linked at level 1 and at no level above.
C33_Witness ==
    /\ writer.pc = "idle" /\ Len(inserted) = 2
    /\ \E n \in Nodes \ {head_} : HeightOf(n) = 2
    /\ \E n \in Nodes \ {head_} : HeightOf(n) = 1
    /\ max_height_ = 2
    /\ next_[head_][1] # nullptr

\* C34: after any sequence of Inserts FindLast() returns the node holding
\* the greatest inserted key, the last node of the level-0 chain, and it
\* returns the head when nothing has been inserted.
C34_FindLastIsGreatest ==
    writer.pc = "idle" =>
        /\ FindLast.status = "done"
        /\ IF inserted = <<>> THEN FindLast.ret = head_
           ELSE /\ FindLast.ret # head_
                /\ key[FindLast.ret] = Max(Range(inserted))
                /\ next_[FindLast.ret][0] = nullptr
                /\ FindLast.ret \in Reach(0)

\* Following the level-L forward pointers from x leads to null, through
\* nodes only and through no node twice.
RECURSIVE EndsInNull(_, _, _)
EndsInNull(x, L, seen) ==
    IF x = nullptr THEN TRUE
    ELSE IF x \notin Nodes \/ x \in seen \/ L \notin DOMAIN next_[x] THEN FALSE
    ELSE EndsInNull(next_[x][L], L, seen \cup {x})

\* C35: Contains, FindGreatOrEqual, FindLessThan and FindLast terminate on
\* every list the writer can have built, in the states between the stores
\* of an Insert too: no level's forward-pointer chain contains a cycle and
\* each chain ends in null.
C35_SearchesTerminate ==
    /\ \A L \in Levels(kMaxHeight) : EndsInNull(head_, L, {})
    /\ FindLast.status = "done"
    /\ \A k \in Keys :
          /\ Contains(k) \in {"true", "false"}
          /\ FindGreatOrEqual(k, NoPrev, FALSE).status = "done"
          /\ FindLessThan(k).status = "done"

\* C1: once a sequence of Insert calls by the single writer has completed,
\* Contains(k) is true for every inserted key and false for every other key.
C1_ContainsAfterInserts ==
    writer.pc = "idle" =>
        \A k \in Keys :
            Contains(k) = IF k \in Range(inserted) THEN "true" ELSE "false"

\* C2: at every level the forward-pointer chain from the head is sorted:
\* a node's non-null successor never has a smaller key than the node.
C2_ChainsSorted ==
    \A L \in Levels(kMaxHeight) :
        \A n \in Reach(L) \ {head_} :
            (L \in DOMAIN next_[n] /\ next_[n][L] \in Nodes \ {head_})
                => key[next_[n][L]] >= key[n]

\* C3: a reader that has obtained a node by loading a forward pointer finds
\* the forward pointers of that node it may still load (its level and the
\* levels below) initialised by the writer.
C3_ReaderSeesInitialisedNode ==
    (reader.pc = "search" /\ reader.x # head_) =>
        \A l \in DOMAIN init_[reader.x] : l <= reader.level => init_[reader.x][l]

\* C4: a lock-free Contains(k) that starts after Insert(k) has returned
\* yields true, and a Contains(k) for a key never passed to Insert yields
\* false, at every interleaving with the writer.
EverPassed == Range(inserted) \cup (IF writer.pc = "idle" THEN {} ELSE {writer.key})

C4_ConcurrentContains ==
    /\ (reader.after /\ reader.pc = "done") => reader.result = "true"
    /\ (reader.pc = "done" /\ reader.key \notin EverPassed) => reader.result = "false"

\* C5: no key is ever removed: after n Insert calls the level-0 chain holds
\* exactly the n allocated nodes, their keys being the inserted multiset in
\* ascending order.
C5_NoKeyRemoved ==
    writer.pc = "idle" =>
        /\ Len(Chain0Keys) = Len(inserted)
        /\ Reach(0) = Nodes
        /\ Ascending(Chain0Keys)
        /\ \A k \in Keys : Count(k, Chain0Keys) = Count(k, inserted)

\* C6: tower property, in every state including those between the linking
\* stores of an Insert: a node on the level-L chain is on every chain below.
C6_Tower ==
    \A L \in 1..(kMaxHeight - 1) : Reach(L) \subseteq Reach(L - 1)

\* C7: inserting the same key m times leaves m nodes with that key on the
\* level-0 chain, and Contains(key) is true.
C7_DuplicatesCoexist ==
    (writer.pc = "idle" /\ inserted # <<>> /\ \A i \in 1..Len(inserted) : inserted[i] = inserted[1])
        => /\ Chain0Keys = inserted
           /\ Contains(inserted[1]) = "true"

(***************************************************************************)
(* Specification of the Arena alone: any sequence of Allocate and          *)
(* AllocateAligned calls on a freshly constructed Arena.                   *)
(***************************************************************************)
AllocSizes == {1, 5, 8, 1024, 1025, 3000}

NoSkipList ==
    /\ key = <<>>
    /\ next_ = <<>>
    /\ init_ = <<>>
    /\ max_height_ = 0
    /\ prev_ = <<>>
    /\ writer = <<>>
    /\ reader = <<>>
    /\ inserted = <<>>

NoList ==
    /\ NoSkipList
    /\ cod = NoCoding
    /\ batch = NoBatch
    /\ table = NoTable

InitArena ==
    /\ arena = EmptyArena
    /\ allocs = <<>>
    /\ NoList

CallAllocate ==
    /\ Len(allocs) < MaxAllocs
    /\ \E bytes \in AllocSizes :
       \E cap \in PushBackCapacity(Len(arena.blocks_), arena.capacity) :
          LET r == Allocate(arena, bytes, cap)
          IN  /\ arena' = r.a
              /\ allocs' = Append(allocs, [ptr |-> r.result, bytes |-> bytes, aligned |-> FALSE])
    /\ UNCHANGED <<listVars, cod, batch, table>>

CallAllocateAligned ==
    /\ Len(allocs) < MaxAllocs
    /\ \E bytes \in AllocSizes :
       \E cap \in PushBackCapacity(Len(arena.blocks_), arena.capacity) :
          LET r == AllocateAligned(arena, bytes, cap)
          IN  /\ arena' = r.a
              /\ allocs' = Append(allocs, [ptr |-> r.result, bytes |-> bytes, aligned |-> TRUE])
    /\ UNCHANGED <<listVars, cod, batch, table>>

NextArena == CallAllocate \/ CallAllocateAligned

SpecArena == InitArena /\ [][NextArena]_vars

(***************************************************************************)
(* Encoding primitives (util/coding.h, util/coding.cpp).                   *)
(*                                                                         *)
(* A uint32_t / uint64_t is a sequence of 32 / 64 bits, least significant  *)
(* bit first, so that every value of the type can be written down.  A      *)
(* byte (unsigned char) is an integer in 0..255, a std::string or a char   *)
(* array a sequence of bytes, and a pointer into it an integer address.    *)
(***************************************************************************)
Min(a, b) == IF a <= b THEN a ELSE b

Pow2(n) == 2 ^ n

\* A function on 1..w written out as the sequence of its w values.
AsSeq(f) == f \o <<>>

\* The w-bit unsigned integer of the small non-negative integer n.
FromInt(n, w) == AsSeq([i \in 1..w |-> IF i <= 31 THEN (n \div Pow2(i - 1)) % 2 ELSE 0])

\* 2^k - 1 and 2^k as w-bit unsigned integers.
OnesBelow(k, w) == AsSeq([i \in 1..w |-> IF i <= k THEN 1 ELSE 0])

SingleBit(k, w) == AsSeq([i \in 1..w |-> IF i = k + 1 THEN 1 ELSE 0])

\* The integer of bits t .. t+n-1 of v, n a power of two, bits from bit k
\* on counting 0: the lower half plus the upper half shifted.
RECURSIVE LimbFrom(_, _, _, _)
LimbFrom(v, t, n, k) ==
    IF n = 1 THEN (IF t + 1 > k THEN 0 ELSE v[t + 1])
    ELSE LimbFrom(v, t, n \div 2, k)
           + Pow2(n \div 2) * LimbFrom(v, t + n \div 2, n \div 2, k)

\* The integer of the k least significant bits of v, k < 32.
ToInt(v, k) == LimbFrom(v, 0, 32, k)

\* The integer of v where it is below 2^31.
IntOf(v) == ToInt(v, Min(Len(v), 31))

\* Conversion to a type of w bits: truncation or zero extension.
Cast(v, w) == AsSeq([i \in 1..w |-> IF i <= Len(v) THEN v[i] ELSE 0])

Shr(v, n) == AsSeq([i \in 1..Len(v) |-> IF i + n <= Len(v) THEN v[i + n] ELSE 0])

Shl(v, n) == AsSeq([i \in 1..Len(v) |-> IF i - n >= 1 THEN v[i - n] ELSE 0])

BitOr(a, b) == AsSeq([i \in 1..Len(a) |-> IF a[i] = 1 \/ b[i] = 1 THEN 1 ELSE 0])

BitAnd(a, b) == AsSeq([i \in 1..Len(a) |-> IF a[i] = 1 /\ b[i] = 1 THEN 1 ELSE 0])

BitNot(a) == AsSeq([i \in 1..Len(a) |-> 1 - a[i]])

\* a < b, both of the same width: they differ, and at the most significant
\* bit at which they differ a has 0.
Less(a, b) ==
    \E i \in 1..Len(a) :
        /\ a[i] < b[i]
        /\ \A j \in (i + 1)..Len(a) : a[j] = b[j]

\* The integer of bits 16j .. 16j+15 of v.
Limb(v, j) == LimbFrom(v, 16 * j, 16, Len(v))

\* The 16-bit digits of a + b from digit j on, given the carry into it.
RECURSIVE AddFrom(_, _, _, _)
AddFrom(a, b, j, carry) ==
    IF 16 * j >= Len(a) THEN <<>>
    ELSE LET t == Limb(a, j) + Limb(b, j) + carry
         IN  <<t % 65536>> \o AddFrom(a, b, j + 1, t \div 65536)

\* The bits of the number whose 16-bit digits are s.
BitsOfLimbs(s, w) ==
    AsSeq([i \in 1..w |-> (s[((i - 1) \div 16) + 1] \div Pow2((i - 1) % 16)) % 2])

\* a + b modulo 2^width, added 16 bits at a time with the carry.
Add(a, b) == BitsOfLimbs(AddFrom(a, b, 0, 0), Len(a))

\* The byte stored when v is assigned to an unsigned char.
Byte(v) == ToInt(v, 8)

\* The address at which the bytes of a string or buffer start, and the byte
\* of buffer mem at address a.
StrBase == HeapBase

At(mem, a) == mem[a - StrBase + 1]

\* Slice(d, n), and Slice::remove_prefix(n).
Slice(d, n) == [data_ |-> d, size_ |-> n]

RemovePrefix(sl, n) == [data_ |-> sl.data_ + n, size_ |-> sl.size_ - n]

\* Fixed-width codecs --------------------------------------------------------

\* memcpy between an integer and char[sizeof] on the little-endian host that
\* port::kLittleEndian declares: byte j holds bits 8j .. 8j+7.
ObjectBytes(v) == AsSeq([j \in 1..(Len(v) \div 8) |-> ToInt(Shr(v, 8 * (j - 1)), 8)])

ObjectOfBytes(b) == AsSeq([i \in 1..(8 * Len(b)) |-> (b[((i - 1) \div 8) + 1] \div Pow2((i - 1) % 8)) % 2])

EncodeFixed32(value) == ObjectBytes(value)

EncodeFixed64(value) == ObjectBytes(value)

PutFixed32(dst, value) == dst \o EncodeFixed32(value)

PutFixed64(dst, value) == dst \o EncodeFixed64(value)

\* The branch of DecodeFixed32 taken when port::kLittleEndian holds.
DecodeFixed32Load(ptr) == ObjectOfBytes(SubSeq(ptr, 1, 4))

\* DecodeFixed32's byte assembly with a fault seeded: bytes 1 and 2 swapped.
DecodeFixed32AssembleSwapped(ptr) ==
    BitOr(BitOr(BitOr(FromInt(ptr[1], 32),
                      Shl(FromInt(ptr[3], 32), 8)),
                Shl(FromInt(ptr[2], 32), 16)),
          Shl(FromInt(ptr[4], 32), 24))

\* The branch of DecodeFixed32 taken otherwise.
DecodeFixed32Assemble(ptr) ==
    BitOr(BitOr(BitOr(FromInt(ptr[1], 32),
                      Shl(FromInt(ptr[2], 32), 8)),
                Shl(FromInt(ptr[3], 32), 16)),
          Shl(FromInt(ptr[4], 32), 24))

kLittleEndian == TRUE

DecodeFixed32(ptr) ==
    IF kLittleEndian THEN DecodeFixed32Load(ptr) ELSE DecodeFixed32Assemble(ptr)

DecodeFixed64Load(ptr) == ObjectOfBytes(SubSeq(ptr, 1, 8))

\* The branch of DecodeFixed64 taken otherwise, in which DecodeFixed32 takes
\* its byte-assembly branch as well.
DecodeFixed64Assemble(ptr) ==
    LET lo == Cast(DecodeFixed32Assemble(SubSeq(ptr, 1, 4)), 64)
        hi == Cast(DecodeFixed32Assemble(SubSeq(ptr, 5, 8)), 64)
    IN  BitOr(Shl(hi, 32), lo)

DecodeFixed64(ptr) ==
    IF kLittleEndian THEN DecodeFixed64Load(ptr) ELSE DecodeFixed64Assemble(ptr)

\* Varints -------------------------------------------------------------------
kMaxVarint32Length == 5

kMaxVarint64Length == 10


\* EncodeVarint32 with a fault seeded: the third byte of a four-byte
\* encoding loses its continuation bit.
EncodeVarint32DroppedBit(v) ==
    LET B == FromInt(128, 32)
    IN  IF Less(v, FromInt(Pow2(7), 32)) THEN <<Byte(v)>>
        ELSE IF Less(v, FromInt(Pow2(14), 32))
        THEN <<Byte(BitOr(v, B)), Byte(Shr(v, 7))>>
        ELSE IF Less(v, FromInt(Pow2(21), 32))
        THEN <<Byte(BitOr(v, B)), Byte(BitOr(Shr(v, 7), B)), Byte(Shr(v, 14))>>
        ELSE IF Less(v, FromInt(Pow2(28), 32))
        THEN <<Byte(BitOr(v, B)), Byte(BitOr(Shr(v, 7), B)),
               Byte(Shr(v, 14)), Byte(Shr(v, 21))>>
        ELSE <<Byte(BitOr(v, B)), Byte(BitOr(Shr(v, 7), B)),
               Byte(BitOr(Shr(v, 14), B)), Byte(BitOr(Shr(v, 21), B)),
               Byte(Shr(v, 28))>>

\* The bytes EncodeVarint32 writes at dst (the pointer it returns is dst
\* plus their number).
EncodeVarint32(v) ==
    LET B == FromInt(128, 32)
    IN  IF Less(v, FromInt(Pow2(7), 32)) THEN <<Byte(v)>>
        ELSE IF Less(v, FromInt(Pow2(14), 32))
        THEN <<Byte(BitOr(v, B)), Byte(Shr(v, 7))>>
        ELSE IF Less(v, FromInt(Pow2(21), 32))
        THEN <<Byte(BitOr(v, B)), Byte(BitOr(Shr(v, 7), B)), Byte(Shr(v, 14))>>
        ELSE IF Less(v, FromInt(Pow2(28), 32))
        THEN <<Byte(BitOr(v, B)), Byte(BitOr(Shr(v, 7), B)),
               Byte(BitOr(Shr(v, 14), B)), Byte(Shr(v, 21))>>
        ELSE <<Byte(BitOr(v, B)), Byte(BitOr(Shr(v, 7), B)),
               Byte(BitOr(Shr(v, 14), B)), Byte(BitOr(Shr(v, 21), B)),
               Byte(Shr(v, 28))>>

PutVarint32(dst, v) == dst \o EncodeVarint32(v)

RECURSIVE EncodeVarint64(_)
EncodeVarint64(v) ==
    LET B == FromInt(128, 64)
    IN  IF ~Less(v, B)
        THEN <<Byte(BitOr(BitAnd(v, FromInt(127, 64)), B))>> \o EncodeVarint64(Shr(v, 7))
        ELSE <<Byte(v)>>

PutVarint64(dst, v) == dst \o EncodeVarint64(v)

\* VarintLength with a fault seeded: the loop compares with 256.
RECURSIVE VarintLengthWide(_)
VarintLengthWide(v) ==
    IF ~Less(v, FromInt(256, 64)) THEN 1 + VarintLengthWide(Shr(v, 7)) ELSE 1

RECURSIVE VarintLengthLoop(_)
VarintLengthLoop(v) ==
    IF ~Less(v, FromInt(128, 64)) THEN 1 + VarintLengthLoop(Shr(v, 7)) ELSE 1

\* VarintLength(uint64_t v); a uint32_t argument is converted.
VarintLength(v) == VarintLengthLoop(Cast(v, 64))

\* What a decoder returns with the addresses it has dereferenced added.
Reading(r, p) == [r EXCEPT !.reads = @ \cup {p}]

\* The loop of GetVarint32PtrFallback with a fault seeded: the bound of the
\* loop lets p reach limit.
RECURSIVE GetVarint32LoopToLimit(_, _, _, _, _, _)
GetVarint32LoopToLimit(mem, p, limit, value, shift, result) ==
    IF Len(result) = 32 /\ shift <= 28 /\ p <= limit
    THEN LET byte == FromInt(At(mem, p), 32)
         IN  IF BitAnd(byte, FromInt(128, 32)) # FromInt(0, 32)
             THEN Reading(GetVarint32LoopToLimit(mem, p + 1, limit, value, shift + 7,
                              BitOr(result, Shl(BitAnd(byte, FromInt(127, 32)), shift))), p)
             ELSE [q |-> p + 1, value |-> BitOr(result, Shl(byte, shift)), reads |-> {p}]
    ELSE [q |-> nullptr, value |-> value, reads |-> {}]

\* The loop of GetVarint32PtrFallback from the iteration with this shift on:
\* q is the pointer returned, value what *value holds afterwards and reads
\* the addresses dereferenced. (The test of result's width has result
\* evaluated before the next iteration adds to it.)
RECURSIVE GetVarint32Loop(_, _, _, _, _, _)
GetVarint32Loop(mem, p, limit, value, shift, result) ==
    IF Len(result) = 32 /\ shift <= 28 /\ p < limit
    THEN LET byte == FromInt(At(mem, p), 32)
         IN  IF BitAnd(byte, FromInt(128, 32)) # FromInt(0, 32)
             THEN Reading(GetVarint32Loop(mem, p + 1, limit, value, shift + 7,
                              BitOr(result, Shl(BitAnd(byte, FromInt(127, 32)), shift))), p)
             ELSE [q |-> p + 1, value |-> BitOr(result, Shl(byte, shift)), reads |-> {p}]
    ELSE [q |-> nullptr, value |-> value, reads |-> {}]

\* GetVarint32PtrFallback with a fault seeded: a varint cut short by the
\* limit is accepted with the bits read so far.
GetVarint32PtrFallbackPartial(mem, p, limit, value) ==
    LET r == GetVarint32Loop(mem, p, limit, value, 0, FromInt(0, 32))
    IN  IF r.q = nullptr /\ p < limit
        THEN [q |-> limit, value |-> FromInt(At(mem, p) % 128, 32), reads |-> r.reads]
        ELSE r

GetVarint32PtrFallback(mem, p, limit, value) ==
    GetVarint32Loop(mem, p, limit, value, 0, FromInt(0, 32))

GetVarint32Ptr(mem, p, limit, value) ==
    IF p < limit /\ BitAnd(FromInt(At(mem, p), 32), FromInt(128, 32)) = FromInt(0, 32)
    THEN [q |-> p + 1, value |-> FromInt(At(mem, p), 32), reads |-> {p}]
    ELSE LET r == GetVarint32PtrFallback(mem, p, limit, value)
         IN  IF p < limit THEN Reading(r, p) ELSE r

\* GetVarint32(Slice* input, uint32_t* value): the value returned, and what
\* *input and *value hold afterwards.
GetVarint32(mem, input, value) ==
    LET p == input.data_
        limit == p + input.size_
        r == GetVarint32Ptr(mem, p, limit, value)
    IN  IF r.q = nullptr
        THEN [ok |-> FALSE, input |-> input, value |-> r.value]
        ELSE [ok |-> TRUE, input |-> Slice(r.q, limit - r.q), value |-> r.value]

RECURSIVE GetVarint64Loop(_, _, _, _, _, _)
GetVarint64Loop(mem, p, limit, value, shift, result) ==
    IF Len(result) = 64 /\ shift <= 63 /\ p < limit
    THEN LET byte == FromInt(At(mem, p), 64)
         IN  IF BitAnd(byte, FromInt(128, 64)) # FromInt(0, 64)
             THEN Reading(GetVarint64Loop(mem, p + 1, limit, value, shift + 7,
                              BitOr(result, Shl(BitAnd(byte, FromInt(127, 64)), shift))), p)
             ELSE [q |-> p + 1, value |-> BitOr(result, Shl(byte, shift)), reads |-> {p}]
    ELSE [q |-> nullptr, value |-> value, reads |-> {}]

GetVarint64Ptr(mem, p, limit, value) ==
    GetVarint64Loop(mem, p, limit, value, 0, FromInt(0, 64))

GetVarint64(mem, input, value) ==
    LET p == input.data_
        limit == p + input.size_
        r == GetVarint64Ptr(mem, p, limit, value)
    IN  IF r.q = nullptr
        THEN [ok |-> FALSE, input |-> input, value |-> r.value]
        ELSE [ok |-> TRUE, input |-> Slice(r.q, limit - r.q), value |-> r.value]

\* Length-prefixed strings ---------------------------------------------------

\* PutLengthPrefixedSlice with a fault seeded: the length is written as one
\* raw byte.
PutLengthPrefixedSliceOneByte(dst, value) == (dst \o <<Len(value) % 256>>) \o value

\* PutLengthPrefixedSlice(dst, value), value given by the bytes it refers to.
PutLengthPrefixedSlice(dst, value) ==
    PutVarint32(dst, FromInt(Len(value), 32)) \o value

\* What the uninitialised local "uint32_t len" is modelled to hold; it is
\* read only after a decoder has stored into it.
LenLocal == FromInt(0, 32)

\* The pointer form with a fault seeded: the check against limit is gone.
GetLengthPrefixedSlicePtrUnchecked(mem, p, limit, result) ==
    LET r == GetVarint32Ptr(mem, p, limit, LenLocal)
    IN  IF r.q = nullptr \/ r.value[32] = 1 THEN [q |-> nullptr, result |-> result]
        ELSE [q |-> r.q + IntOf(r.value), result |-> Slice(r.q, IntOf(r.value))]

\* GetLengthPrefixedSlice(const char* p, const char* limit, Slice* result):
\* the pointer returned and what *result holds afterwards.  p + len is
\* computed in the 64 bits of a pointer.
GetLengthPrefixedSlicePtr(mem, p, limit, result) ==
    LET r == GetVarint32Ptr(mem, p, limit, LenLocal)
    IN  IF r.q = nullptr THEN [q |-> nullptr, result |-> result]
        ELSE IF Less(FromInt(limit, 64), Add(FromInt(r.q, 64), Cast(r.value, 64)))
        THEN [q |-> nullptr, result |-> result]
        ELSE [q |-> r.q + IntOf(r.value), result |-> Slice(r.q, IntOf(r.value))]

\* GetLengthPrefixedSlice(Slice* input, Slice* result): the value returned
\* and what *input and *result hold afterwards.
GetLengthPrefixedSlice(mem, input, result) ==
    LET g == GetVarint32(mem, input, LenLocal)
    IN  IF g.ok /\ ~Less(FromInt(g.input.size_, 64), Cast(g.value, 64))
        THEN [ok |-> TRUE, input |-> RemovePrefix(g.input, IntOf(g.value)),
              result |-> Slice(g.input.data_, IntOf(g.value))]
        ELSE [ok |-> FALSE, input |-> g.input, result |-> result]

\* Bit streams -----------------------------------------------------------------

\* a & b and a & ~b on the int operands of the byte arithmetic.
IntAnd(a, b) == IntOf(BitAnd(FromInt(a, 32), FromInt(b, 32)))

IntAndNot(a, b) == IntOf(BitAnd(FromInt(a, 32), BitNot(FromInt(b, 32))))

\* unsigned char mask = ((1 << bitsToGet) - 1)
MaskOf(bitsToGet) == (Pow2(bitsToGet) - 1) % 256

\* value truncated to its bits least significant bits:
\* (bits < 64) ? (value & (((uint64_t) 1 << bits) - 1)) : value
Truncated(value, bits) ==
    IF bits < 64 THEN BitAnd(value, OnesBelow(bits, 64)) ELSE value

\* The loop of BitStreamGetInt. (The test of result's width has result
\* evaluated before the next iteration adds to it.)
RECURSIVE BitStreamGetLoop(_, _, _, _, _, _)
BitStreamGetLoop(ptr, byteOffset, bitOffset, shift, bits, result) ==
    IF bits > 0 /\ Len(result) = 64
    THEN LET bitsToGet == Min(bits, 8 - bitOffset)
             mask == MaskOf(bitsToGet)
             part == IntAnd(ptr[byteOffset + 1] \div Pow2(bitOffset), mask)
         IN  BitStreamGetLoop(ptr, byteOffset + 1, 0, shift + bitsToGet, bits - bitsToGet,
                              Add(result, Shl(FromInt(part, 64), shift)))
    ELSE result

\* BitStreamGetInt with a fault seeded: the field is read from the start of
\* its first byte.
BitStreamGetIntByteStart(src, srclen, offset, bits) ==
    IF ~((offset + bits + 7) \div 8 <= srclen) \/ ~(bits <= 64)
    THEN [aborted |-> TRUE, value |-> FromInt(0, 64)]
    ELSE [aborted |-> FALSE,
          value |-> BitStreamGetLoop(src, offset \div 8, 0, 0, bits, FromInt(0, 64))]

\* BitStreamGetInt(src, srclen, offset, bits): the value returned, or the
\* abort of a failed assertion.
BitStreamGetInt(src, srclen, offset, bits) ==
    IF ~((offset + bits + 7) \div 8 <= srclen) \/ ~(bits <= 64)
    THEN [aborted |-> TRUE, value |-> FromInt(0, 64)]
    ELSE [aborted |-> FALSE,
          value |-> BitStreamGetLoop(src, offset \div 8, offset % 8, 0, bits, FromInt(0, 64))]

\* The loop of BitStreamPutInt with a fault seeded: the byte's other bits
\* are not kept.
RECURSIVE BitStreamPutLoopClobber(_, _, _, _, _)
BitStreamPutLoopClobber(ptr, byteOffset, bitOffset, bits, value) ==
    IF bits > 0 /\ Len(value) = 64 /\ Len(ptr) > byteOffset
    THEN LET bitsToGet == Min(bits, 8 - bitOffset)
             mask == MaskOf(bitsToGet)
             put == Shl(BitAnd(value, FromInt(mask, 64)), bitOffset)
         IN  BitStreamPutLoopClobber([ptr EXCEPT ![byteOffset + 1] = Byte(put)],
                                     byteOffset + 1, 0, bits - bitsToGet,
                                     Shr(value, bitsToGet))
    ELSE ptr

\* The loop of BitStreamPutInt: the buffer it leaves. (The tests of value's
\* width and of the buffer's length, which the assertion of BitStreamPutInt
\* has established, have both evaluated before the iteration uses them.)
RECURSIVE BitStreamPutLoop(_, _, _, _, _)
BitStreamPutLoop(ptr, byteOffset, bitOffset, bits, value) ==
    IF bits > 0 /\ Len(value) = 64 /\ Len(ptr) > byteOffset
    THEN LET bitsToGet == Min(bits, 8 - bitOffset)
             mask == MaskOf(bitsToGet)
             keep == IntAndNot(ptr[byteOffset + 1], mask * Pow2(bitOffset))
             put == Shl(BitAnd(value, FromInt(mask, 64)), bitOffset)
         IN  BitStreamPutLoop([ptr EXCEPT ![byteOffset + 1] = Byte(Add(FromInt(keep, 64), put))],
                              byteOffset + 1, 0, bits - bitsToGet,
                              Shr(value, bitsToGet))
    ELSE ptr

\* BitStreamPutInt(dst, dstlen, offset, bits, value), assertions enabled: the
\* buffer it leaves, or the abort of a failed assertion.
BitStreamPutInt(dst, dstlen, offset, bits, value) ==
    IF ~((offset + bits + 7) \div 8 <= dstlen) \/ ~(bits <= 64)
    THEN [aborted |-> TRUE, dst |-> dst]
    ELSE LET origValue == Truncated(value, bits)
             written == BitStreamPutLoop(dst, offset \div 8, offset % 8, bits, value)
             check == BitStreamGetInt(written, dstlen, offset, bits)
         IN  [dst |-> written, aborted |-> check.aborted \/ origValue # check.value]

\* const size_t kTmpBufLen = sizeof(value) + 1
kTmpBufLen == 9

\* (*dst)[pos] of a std::string: a character of the string, and at
\* pos = size() the terminator.
StringAt(dst, pos) == IF pos < Len(dst) THEN dst[pos + 1] ELSE 0

\* BitStreamPutInt(std::string *dst, offset, bits, value), assertions
\* enabled.  tmpBuf starts as uninitialised stack memory (every byte junk);
\* touched and tmp are the string positions and the tmpBuf positions the
\* two copy loops read and write; wroteEnd tells that the copy back stored
\* something other than the terminator at position size().
BitStreamPutIntString(dst, offset, bits, value, junk) ==
    IF ~((offset + bits + 7) \div 8 <= Len(dst))
    THEN [dst |-> dst, aborted |-> TRUE, touched |-> {}, tmp |-> {}, wroteEnd |-> FALSE]
    ELSE LET kUsedBytes == ((offset % 8) + bits) \div 8
             first == offset \div 8
             tmpBuf == AsSeq([i \in 1..kTmpBufLen |->
                                IF i - 1 <= kUsedBytes THEN StringAt(dst, first + i - 1)
                                ELSE junk])
             put == BitStreamPutInt(tmpBuf, kTmpBufLen, offset % 8, bits, value)
             back == AsSeq([i \in 1..Len(dst) |->
                              IF first <= i - 1 /\ i - 1 <= first + kUsedBytes
                              THEN put.dst[i - first] ELSE dst[i]])
             check == BitStreamGetInt(back, Len(back), offset, bits)
         IN  [dst |-> back,
              aborted |-> put.aborted \/ check.aborted
                            \/ Truncated(value, bits) # check.value,
              touched |-> {first + idx : idx \in 0..kUsedBytes},
              tmp |-> 0..kUsedBytes,
              wroteEnd |-> first + kUsedBytes >= Len(dst)
                             /\ put.dst[Len(dst) - first + 1] # 0]

(***************************************************************************)
(* Callers of the encoding primitives.  Each behaviour starts from one     *)
(* choice of arguments (cod) and applies the routines to it; the Arena     *)
(* and the list stay empty.                                                *)
(***************************************************************************)
\* Values of a w-bit type: every 2^k - 1, every 2^k, 300 and the two
\* alternating bit patterns.
Samples(w) ==
    {OnesBelow(k, w) : k \in 0..w} \cup {SingleBit(k, w) : k \in 0..(w - 1)}
      \cup {FromInt(300, w), AsSeq([i \in 1..w |-> i % 2]), AsSeq([i \in 1..w |-> (i + 1) % 2])}

\* What a string holds before a Put appends to it, and what is appended
\* after the encoding.
Befores == {<<>>, <<255>>}

Tails == {<<>>, <<129, 1>>}

CodingIdle ==
    /\ arena = EmptyArena /\ allocs = <<>> /\ NoSkipList
    /\ batch = NoBatch /\ table = NoTable

InitVarint ==
    /\ CodingIdle
    /\ \E w \in {32, 64}, before \in Befores, tail \in Tails :
         \E v \in Samples(w) :
           cod = [kind |-> "varint", phase |-> "start", width |-> w, v |-> v,
                  before |-> before, tail |-> tail, dst |-> before, emitted |-> 0,
                  input |-> Slice(nullptr, 0), value |-> FromInt(0, w), ok |-> FALSE]

\* PutVarint32(&dst, v) or PutVarint64(&dst, v).
CallPutVarint ==
    /\ cod.kind = "varint" /\ cod.phase = "start"
    /\ cod' = LET d == IF cod.width = 32 THEN PutVarint32(cod.dst, cod.v)
                ELSE PutVarint64(cod.dst, cod.v)
       IN  [cod EXCEPT !.phase = "put", !.dst = d,
                              !.emitted = Len(d) - Len(cod.dst)]
    /\ UNCHANGED <<arena, allocs, listVars, batch, table>>

\* dst.append(tail); Slice input(dst.data() + before, ...).
AppendTail ==
    /\ cod.kind = "varint" /\ cod.phase = "put"
    /\ cod' = LET d == cod.dst \o cod.tail
       IN  [cod EXCEPT !.phase = "ready", !.dst = d,
                              !.input = Slice(StrBase + Len(cod.before),
                                              Len(d) - Len(cod.before))]
    /\ UNCHANGED <<arena, allocs, listVars, batch, table>>

\* GetVarint32(&input, &value) or GetVarint64(&input, &value).
CallGetVarint ==
    /\ cod.kind = "varint" /\ cod.phase = "ready"
    /\ cod' = LET r == IF cod.width = 32 THEN GetVarint32(cod.dst, cod.input, cod.value)
                ELSE GetVarint64(cod.dst, cod.input, cod.value)
       IN  [cod EXCEPT !.phase = "got", !.ok = r.ok, !.input = r.input,
                              !.value = r.value]
    /\ UNCHANGED <<arena, allocs, listVars, batch, table>>

(***************************************************************************)
(* The Arena again, now with callers that also ask for zero bytes.  A      *)
(* failed assertion ends the process: nothing runs after it.               *)
(***************************************************************************)
Running == \A i \in 1..Len(allocs) : allocs[i].ptr # Aborted

CallAllocateZero ==
    /\ Len(allocs) < MaxAllocs
    /\ \E cap \in PushBackCapacity(Len(arena.blocks_), arena.capacity) :
          LET r == Allocate(arena, 0, cap)
          IN  /\ arena' = r.a
              /\ allocs' = Append(allocs, [ptr |-> r.result, bytes |-> 0, aligned |-> FALSE])
    /\ UNCHANGED <<listVars, cod, batch, table>>

CallAllocateAlignedZero ==
    /\ Len(allocs) < MaxAllocs
    /\ \E cap \in PushBackCapacity(Len(arena.blocks_), arena.capacity) :
          LET r == AllocateAligned(arena, 0, cap)
          IN  /\ arena' = r.a
              /\ allocs' = Append(allocs, [ptr |-> r.result, bytes |-> 0, aligned |-> TRUE])
    /\ UNCHANGED <<listVars, cod, batch, table>>

NextArenaZero ==
    \/ Running /\ CallAllocate
    \/ Running /\ CallAllocateAligned
    \/ Running /\ CallAllocateZero
    \/ Running /\ CallAllocateAlignedZero

SpecArenaZero == InitArena /\ [][NextArenaZero]_vars

(***************************************************************************)
(* Arena properties                                                        *)
(***************************************************************************)
RECURSIVE Requested(_)
Requested(h) == IF h = <<>> THEN 0 ELSE h[1].bytes + Requested(Tail(h))

BlockBases(a) == {a.blocks_[b] : b \in 1..Len(a.blocks_)}

InBlock(a, p, n) ==
    \E b \in 1..Len(a.blocks_) :
        a.blocks_[b] <= p /\ p + n <= a.blocks_[b] + a.sizes[b]

Disjoint(h) ==
    \A i, j \in 1..Len(h) :
        i < j => (h[i].ptr + h[i].bytes <= h[j].ptr \/ h[j].ptr + h[j].bytes <= h[i].ptr)

IsPrefix(s, t) == Len(s) <= Len(t) /\ \A i \in 1..Len(s) : s[i] = t[i]

\* C8: over any sequence of Allocate / AllocateAligned calls with n > 0,
\* MemoryUsage() never decreases from one call to the next and after every
\* call is at least the sum of the byte counts requested so far.
C8_MemoryUsageMonotone ==
    [][/\ MemoryUsage(arena') >= MemoryUsage(arena)
       /\ MemoryUsage(arena') >= Requested(allocs')]_vars

C8_Witness ==
    /\ Len(allocs) >= 3
    /\ Len(arena.blocks_) >= 2
    /\ \E i \in 1..Len(allocs) : allocs[i].aligned
    /\ \E i \in 1..Len(allocs) : ~allocs[i].aligned
    /\ Requested(allocs) > kBlockSize

\* C9: the byte ranges [p, p+n) returned by Allocate / AllocateAligned are
\* pairwise disjoint, each lies inside one block owned by the arena, and no
\* call frees or moves a block handed out before.
C9_AllocationsDisjoint ==
    [][/\ Disjoint(allocs')
       /\ \A i \in 1..Len(allocs') : InBlock(arena', allocs'[i].ptr, allocs'[i].bytes)
       /\ IsPrefix(arena.blocks_, arena'.blocks_)
       /\ IsPrefix(arena.sizes, arena'.sizes)]_vars

C9_Witness ==
    /\ Len(allocs) >= 4
    /\ Len(arena.blocks_) >= 2
    /\ \E i, j \in 1..Len(allocs) :
          /\ i < j
          /\ \E b \in 1..Len(arena.blocks_) :
                /\ arena.blocks_[b] <= allocs[i].ptr
                /\ allocs[i].ptr < allocs[j].ptr
                /\ allocs[j].ptr < arena.blocks_[b] + arena.sizes[b]

\* C10: every pointer returned by AllocateAligned is a multiple of the
\* alignment (8), on the in-place path and on the fallback path alike: the
\* assertion closing AllocateAligned never fails.
C10_AlignedPointers ==
    \A i \in 1..Len(allocs) : allocs[i].aligned => allocs[i].ptr % align = 0

C10_Witness ==
    /\ \E i \in 1..Len(allocs) :
          /\ allocs[i].aligned
          /\ allocs[i].ptr \in BlockBases(arena)
    /\ \E i \in 2..Len(allocs) :
          /\ allocs[i].aligned
          /\ allocs[i].ptr \notin BlockBases(arena)
          /\ (allocs[i-1].ptr + allocs[i-1].bytes) % align # 0
          /\ allocs[i].ptr > allocs[i-1].ptr + allocs[i-1].bytes
          /\ allocs[i].ptr < allocs[i-1].ptr + allocs[i-1].bytes + align

\* What the call that appended c to the history needed of the block that
\* was current in arena a: the request, and for AllocateAligned the padding
\* up to the next multiple of the alignment.
Slop(a, c) ==
    IF c.aligned /\ a.alloc_ptr_ % align # 0 THEN align - (a.alloc_ptr_ % align) ELSE 0

Needed(a, c) == c.bytes + Slop(a, c)

Fits(a, c) == Needed(a, c) <= a.alloc_bytes_remaining_

\* C36: block policy.  A request that fits in the current block's remaining
\* bytes is served by bumping the pointer in place, with no new block and
\* no change of the block total of MemoryUsage; a request that does not fit
\* and exceeds kBlockSize / 4 = 1024 gets a dedicated block of exactly the
\* requested size; a request that does not fit and is at most 1024 gets a
\* fresh block of 4096 bytes, is served from its start, and leaves 4096
\* minus the request as the new remainder.
C36_BlockPolicy ==
    [][Len(allocs') = Len(allocs) + 1 =>
         LET c == Last(allocs')
         IN  IF Fits(arena, c)
             THEN /\ c.ptr = arena.alloc_ptr_ + Slop(arena, c)
                  /\ arena'.alloc_ptr_ = arena.alloc_ptr_ + Needed(arena, c)
                  /\ arena'.alloc_bytes_remaining_ = arena.alloc_bytes_remaining_ - Needed(arena, c)
                  /\ arena'.blocks_ = arena.blocks_
                  /\ arena'.blocks_memory_ = arena.blocks_memory_
             ELSE /\ arena'.blocks_ = Append(arena.blocks_, c.ptr)
                  /\ c.ptr \notin BlockBases(arena)
                  /\ IF c.bytes > 1024
                     THEN /\ Last(arena'.sizes) = c.bytes
                          /\ arena'.blocks_memory_ = arena.blocks_memory_ + c.bytes
                     ELSE /\ Last(arena'.sizes) = 4096
                          /\ arena'.blocks_memory_ = arena.blocks_memory_ + 4096
                          /\ arena'.alloc_ptr_ = c.ptr + c.bytes
                          /\ arena'.alloc_bytes_remaining_ = 4096 - c.bytes]_vars

\* All three cases have happened: a request of 1024 bytes opened a standard
\* block, one of 1025 bytes got a block of its own, and a request was
\* served in place behind an earlier one.
C36_Witness ==
    /\ Len(allocs) = 4
    /\ \E i \in 1..Len(allocs), b \in 1..Len(arena.blocks_) :
          allocs[i].bytes = 1024 /\ allocs[i].ptr = arena.blocks_[b] /\ arena.sizes[b] = 4096
    /\ \E i \in 1..Len(allocs), b \in 1..Len(arena.blocks_) :
          allocs[i].bytes = 1025 /\ allocs[i].ptr = arena.blocks_[b] /\ arena.sizes[b] = 1025
    /\ \E i \in 1..Len(allocs) : allocs[i].ptr \notin BlockBases(arena)

\* The blocks that were allocated for one request each (no request of the
\* model is for exactly kBlockSize bytes).
Dedicated(a) == {b \in 1..Len(a.blocks_) : a.sizes[b] # kBlockSize}

\* C37: a request served from a dedicated block (it does not fit and exceeds
\* 1024 bytes) leaves the bump pointer and the remaining-byte counter as
\* they were, so that later requests that fit are served from the old
\* current block and never from the dedicated block.
C37_DedicatedLeavesCurrent ==
    /\ [][(Len(allocs') = Len(allocs) + 1 /\ ~Fits(arena, Last(allocs'))
             /\ Last(allocs').bytes > 1024) =>
            /\ arena'.alloc_ptr_ = arena.alloc_ptr_
            /\ arena'.alloc_bytes_remaining_ = arena.alloc_bytes_remaining_]_vars
    /\ [](\A b \in Dedicated(arena) : \A i \in 1..Len(allocs) :
            (arena.blocks_[b] <= allocs[i].ptr
                /\ allocs[i].ptr < arena.blocks_[b] + arena.sizes[b])
              => (allocs[i].ptr = arena.blocks_[b] /\ allocs[i].bytes = arena.sizes[b]))
    /\ [](arena.alloc_bytes_remaining_ > 0 =>
            \E b \in 1..Len(arena.blocks_) \ Dedicated(arena) :
                arena.alloc_ptr_ + arena.alloc_bytes_remaining_ = arena.blocks_[b] + kBlockSize)

\* Requests of 8 and 3000 bytes share the first block; a second request of
\* 3000 bytes does not fit and got a block of its own; a request of 5 bytes
\* was then served behind the first 3000, in the older block.
C37_Witness ==
    /\ Len(allocs) = 4
    /\ allocs[1].bytes = 8 /\ allocs[2].bytes = 3000
    /\ allocs[3].bytes = 3000 /\ allocs[4].bytes = 5
    /\ Len(arena.blocks_) = 2
    /\ allocs[3].ptr = arena.blocks_[2] /\ arena.sizes[2] = 3000
    /\ allocs[4].ptr = allocs[2].ptr + 3000
    /\ arena.alloc_ptr_ = arena.blocks_[1] + 3013

\* C11: a zero-length request is a fault: neither Allocate(0) nor
\* AllocateAligned(0) returns a pointer, and neither changes the bump
\* pointer, the remaining bytes or the block list.
C11_ZeroLengthAborts ==
    [][(Len(allocs') > Len(allocs) /\ Last(allocs').bytes = 0)
         => /\ Last(allocs').ptr = Aborted
            /\ arena'.alloc_ptr_ = arena.alloc_ptr_
            /\ arena'.alloc_bytes_remaining_ = arena.alloc_bytes_remaining_
            /\ arena'.blocks_ = arena.blocks_]_vars

\* C12: GetVarint32 / GetVarint64 applied to the bytes PutVarint32 /
\* PutVarint64 appended for v returns true, yields v and consumes exactly
\* VarintLength(v) bytes, and the encoder emits exactly VarintLength(v) bytes.
C12_VarintRoundTrip ==
    cod.kind = "varint" =>
      /\ cod.phase # "start" => cod.emitted = VarintLength(cod.v)
      /\ cod.phase = "got" =>
           /\ cod.ok
           /\ cod.value = cod.v
           /\ cod.input = Slice(StrBase + Len(cod.before) + VarintLength(cod.v),
                                Len(cod.tail))

\* A 64-bit value with its top bit set has been encoded after other bytes,
\* followed by more bytes, and decoded.
C12_Witness ==
    /\ cod.kind = "varint" /\ cod.phase = "got" /\ cod.width = 64
    /\ cod.v[64] = 1 /\ cod.before # <<>> /\ cod.tail # <<>>
    /\ cod.emitted = 10


\* Callers of the length-prefixed routines: up to MaxRecords strings are
\* appended back to back and then decoded one after another, by the Slice
\* form or by the pointer form.
MaxRecords == 2

StringOf(n) == AsSeq([i \in 1..n |-> (7 * i) % 256])

Strings == {StringOf(n) : n \in {0, 1, 2, 127, 128, 130}}

\* The bytes a Slice refers to.
BytesOf(mem, sl) == AsSeq([i \in 1..sl.size_ |-> At(mem, sl.data_ + i - 1)])

\* What *result holds before a decoder is called.
StaleResult == Slice(StrBase, 1)

InitRecords ==
    /\ CodingIdle
    /\ \E n \in 1..MaxRecords, before \in Befores, form \in {"slice", "ptr"} :
         \E recs \in [1..n -> Strings] :
           cod = [kind |-> "records", phase |-> "put", form |-> form, recs |-> recs,
                  before |-> before, dst |-> before,
                  input |-> Slice(nullptr, 0), result |-> StaleResult, outs |-> <<>>]

\* The position in the string just past the first n records.
RECURSIVE EndOfRecord(_, _)
EndOfRecord(c, n) ==
    IF n = 0 THEN StrBase + Len(c.before)
    ELSE EndOfRecord(c, n - 1) + VarintLength(FromInt(Len(c.recs[n]), 32)) + Len(c.recs[n])

\* PutLengthPrefixedSlice(&dst, recs[i]) for each record in turn, then
\* Slice input(dst.data() + before, ...).
CallPutLengthPrefixedSlice ==
    /\ cod.kind = "records" /\ cod.phase = "put"
    /\ cod' = LET i == Len(cod.outs) + 1
                  d == PutLengthPrefixedSlice(cod.dst, cod.recs[i])
              IN  IF i < Len(cod.recs)
                  THEN [cod EXCEPT !.dst = d, !.outs = Append(@, [ok |-> FALSE])]
                  ELSE [cod EXCEPT !.dst = d, !.outs = <<>>, !.phase = "get",
                          !.input = Slice(StrBase + Len(cod.before), Len(d) - Len(cod.before))]
    /\ UNCHANGED <<arena, allocs, listVars, batch, table>>

\* GetLengthPrefixedSlice(&input, &result).
CallGetLengthPrefixedSlice ==
    /\ cod.kind = "records" /\ cod.phase = "get" /\ cod.form = "slice"
    /\ cod' = LET r == GetLengthPrefixedSlice(cod.dst, cod.input, cod.result)
           o == [ok |-> r.ok, bytes |-> BytesOf(cod.dst, r.result), at |-> r.input.data_]
       IN  [cod EXCEPT !.input = r.input, !.result = r.result,
                              !.outs = Append(@, o),
                              !.phase = IF ~r.ok \/ Len(cod.outs) + 1 = Len(cod.recs)
                                        THEN "done" ELSE "get"]
    /\ UNCHANGED <<arena, allocs, listVars, batch, table>>

\* p = GetLengthPrefixedSlice(p, limit, &result).
CallGetLengthPrefixedSlicePtr ==
    /\ cod.kind = "records" /\ cod.phase = "get" /\ cod.form = "ptr"
    /\ cod' = LET limit == cod.input.data_ + cod.input.size_
           r == GetLengthPrefixedSlicePtr(cod.dst, cod.input.data_, limit, cod.result)
           o == [ok |-> r.q # nullptr, bytes |-> BytesOf(cod.dst, r.result), at |-> r.q]
       IN  [cod EXCEPT !.input = IF r.q = nullptr THEN @ ELSE Slice(r.q, limit - r.q),
                              !.result = r.result,
                              !.outs = Append(@, o),
                              !.phase = IF r.q = nullptr \/ Len(cod.outs) + 1 = Len(cod.recs)
                                        THEN "done" ELSE "get"]
    /\ UNCHANGED <<arena, allocs, listVars, batch, table>>

\* Callers that hand a decoder bytes no encoder need have written: up to
\* MaxCont bytes with the continuation bit, then a few more; the input ends
\* there, and the memory may go on beyond it.
MaxCont == 11

ContBytes == {128, 129, 255}

RawTails == {<<>>, <<0>>, <<1>>, <<127>>, <<15>>, <<5, 65>>, <<2, 65, 66, 67>>}

Beyonds == {<<0>>, <<1, 66, 67, 68, 69, 70>>}

Decoders ==
    {"GetVarint32", "GetVarint64", "GetVarint32Ptr", "GetVarint64Ptr",
     "GetVarint32PtrFallback", "GetLengthPrefixedSlice", "GetLengthPrefixedSlicePtr"}

\* What *value holds before a decoder is called.
StaleValue(w) == FromInt(12345, w)

InitRaw ==
    /\ CodingIdle
    /\ \E k \in 0..MaxCont, c \in ContBytes, tail \in RawTails, beyond \in Beyonds :
         \E fn \in Decoders :
           LET raw == [i \in 1..k |-> c] \o tail
           IN  cod = [kind |-> "raw", phase |-> "start", fn |-> fn, mem |-> raw \o beyond,
                      input0 |-> Slice(StrBase, Len(raw)), input |-> Slice(StrBase, Len(raw)),
                      value |-> StaleValue(IF fn \in {"GetVarint64", "GetVarint64Ptr"} THEN 64 ELSE 32),
                      result |-> StaleResult, ok |-> FALSE, q |-> nullptr, reads |-> {}]

RawLimit == cod.input.data_ + cod.input.size_

RawGetVarint32 ==
    /\ cod.kind = "raw" /\ cod.phase = "start" /\ cod.fn = "GetVarint32"
    /\ cod' = LET r == GetVarint32(cod.mem, cod.input, cod.value)
       IN  [cod EXCEPT !.phase = "done", !.ok = r.ok, !.input = r.input,
                              !.value = r.value]
    /\ UNCHANGED <<arena, allocs, listVars, batch, table>>

RawGetVarint64 ==
    /\ cod.kind = "raw" /\ cod.phase = "start" /\ cod.fn = "GetVarint64"
    /\ cod' = LET r == GetVarint64(cod.mem, cod.input, cod.value)
       IN  [cod EXCEPT !.phase = "done", !.ok = r.ok, !.input = r.input,
                              !.value = r.value]
    /\ UNCHANGED <<arena, allocs, listVars, batch, table>>

RawGetVarint32Ptr ==
    /\ cod.kind = "raw" /\ cod.phase = "start" /\ cod.fn = "GetVarint32Ptr"
    /\ cod' = LET r == GetVarint32Ptr(cod.mem, cod.input.data_, RawLimit, cod.value)
       IN  [cod EXCEPT !.phase = "done", !.ok = (r.q # nullptr), !.q = r.q,
                              !.value = r.value, !.reads = r.reads]
    /\ UNCHANGED <<arena, allocs, listVars, batch, table>>

RawGetVarint32PtrFallback ==
    /\ cod.kind = "raw" /\ cod.phase = "start" /\ cod.fn = "GetVarint32PtrFallback"
    /\ cod' = LET r == GetVarint32PtrFallback(cod.mem, cod.input.data_, RawLimit, cod.value)
       IN  [cod EXCEPT !.phase = "done", !.ok = (r.q # nullptr), !.q = r.q,
                              !.value = r.value, !.reads = r.reads]
    /\ UNCHANGED <<arena, allocs, listVars, batch, table>>

RawGetVarint64Ptr ==
    /\ cod.kind = "raw" /\ cod.phase = "start" /\ cod.fn = "GetVarint64Ptr"
    /\ cod' = LET r == GetVarint64Ptr(cod.mem, cod.input.data_, RawLimit, cod.value)
       IN  [cod EXCEPT !.phase = "done", !.ok = (r.q # nullptr), !.q = r.q,
                              !.value = r.value, !.reads = r.reads]
    /\ UNCHANGED <<arena, allocs, listVars, batch, table>>

RawGetLengthPrefixedSlice ==
    /\ cod.kind = "raw" /\ cod.phase = "start" /\ cod.fn = "GetLengthPrefixedSlice"
    /\ cod' = LET r == GetLengthPrefixedSlice(cod.mem, cod.input, cod.result)
       IN  [cod EXCEPT !.phase = "done", !.ok = r.ok, !.input = r.input,
                              !.result = r.result]
    /\ UNCHANGED <<arena, allocs, listVars, batch, table>>

RawGetLengthPrefixedSlicePtr ==
    /\ cod.kind = "raw" /\ cod.phase = "start" /\ cod.fn = "GetLengthPrefixedSlicePtr"
    /\ cod' = LET r == GetLengthPrefixedSlicePtr(cod.mem, cod.input.data_, RawLimit, cod.result)
       IN  [cod EXCEPT !.phase = "done", !.ok = (r.q # nullptr), !.q = r.q,
                              !.result = r.result]
    /\ UNCHANGED <<arena, allocs, listVars, batch, table>>

\* The number of bytes with the continuation bit at the start of [p, limit).
RECURSIVE Lead(_, _, _)
Lead(mem, p, limit) ==
    IF p < limit /\ At(mem, p) >= 128 THEN 1 + Lead(mem, p + 1, limit) ELSE 0

\* Callers of the bit-stream routines: a buffer of equal bytes, a field
\* that starts at bit 0..MaxBitOffset and is 0..64 bits wide, in a buffer
\* that is as short as the routines permit or longer.
MaxBitOffset == 8

BitBufLen == (MaxBitOffset + 64 + 7) \div 8

\* The byte that fills the buffer beforehand, with the value written: ones
\* into a buffer of zeros, alternating bits into a buffer of ones.
BitCases ==
    {[fill |-> 0, value |-> OnesBelow(64, 64)],
     [fill |-> 255, value |-> AsSeq([i \in 1..64 |-> i % 2])]}

InitBits ==
    /\ CodingIdle
    /\ \E offset \in 0..MaxBitOffset, bits \in 0..64, case \in BitCases :
         \E dstlen \in {(offset + bits + 7) \div 8, BitBufLen} :
           cod = [kind |-> "bits", phase |-> "start", offset |-> offset, bits |-> bits,
                  value |-> case.value, buf0 |-> AsSeq([i \in 1..dstlen |-> case.fill]),
                  buf |-> AsSeq([i \in 1..dstlen |-> case.fill]), aborted |-> FALSE,
                  got |-> FromInt(0, 64), touched |-> {}, tmp |-> {}, wroteEnd |-> FALSE]

CallBitStreamPutInt ==
    /\ cod.kind = "bits" /\ cod.phase = "start"
    /\ cod' = LET r == BitStreamPutInt(cod.buf, Len(cod.buf), cod.offset, cod.bits, cod.value)
       IN  [cod EXCEPT !.phase = IF r.aborted THEN "aborted" ELSE "put",
                              !.buf = r.dst, !.aborted = r.aborted]
    /\ UNCHANGED <<arena, allocs, listVars, batch, table>>

\* The std::string overload, on the same bytes held by a string.
CallBitStreamPutIntString ==
    /\ cod.kind = "bits" /\ cod.phase = "start"
    /\ \E junk \in {0, 255} :
         cod' = LET r == BitStreamPutIntString(cod.buf, cod.offset, cod.bits, cod.value, junk)
                IN  [cod EXCEPT !.phase = IF r.aborted THEN "aborted" ELSE "string",
                                !.buf = r.dst, !.aborted = r.aborted,
                                !.touched = r.touched, !.tmp = r.tmp,
                                !.wroteEnd = r.wroteEnd]
    /\ UNCHANGED <<arena, allocs, listVars, batch, table>>

CallBitStreamGetInt ==
    /\ cod.kind = "bits" /\ cod.phase = "put"
    /\ cod' = LET r == BitStreamGetInt(cod.buf, Len(cod.buf), cod.offset, cod.bits)
       IN  [cod EXCEPT !.phase = IF r.aborted THEN "aborted" ELSE "got",
                              !.aborted = r.aborted, !.got = r.value]
    /\ UNCHANGED <<arena, allocs, listVars, batch, table>>

\* Absolute bit k of a buffer: bit (k mod 8) of byte (k div 8).
BitAt(b, k) == (b[(k \div 8) + 1] \div Pow2(k % 8)) % 2

\* Callers of the fixed-width routines: a value is appended to a string and
\* decoded again, by the decoder as built and by each of its two branches.
InitFixed ==
    /\ CodingIdle
    /\ \E w \in {32, 64}, before \in Befores :
         \E v \in Samples(w) :
           cod = [kind |-> "fixed", phase |-> "start", width |-> w, v |-> v,
                  before |-> before, dst |-> before, decoded |-> FromInt(0, w),
                  load |-> FromInt(0, w), assemble |-> FromInt(0, w)]

\* PutFixed32(&dst, v) or PutFixed64(&dst, v).
CallPutFixed ==
    /\ cod.kind = "fixed" /\ cod.phase = "start"
    /\ cod' = [cod EXCEPT !.phase = "put",
                          !.dst = IF cod.width = 32 THEN PutFixed32(cod.dst, cod.v)
                                  ELSE PutFixed64(cod.dst, cod.v)]
    /\ UNCHANGED <<arena, allocs, listVars, batch, table>>

\* DecodeFixed32(dst.data() + before) or DecodeFixed64(dst.data() + before).
CallDecodeFixed ==
    /\ cod.kind = "fixed" /\ cod.phase = "put"
    /\ cod' = LET ptr == SubSeq(cod.dst, Len(cod.before) + 1, Len(cod.dst))
              IN  IF cod.width = 32
                  THEN [cod EXCEPT !.phase = "got", !.decoded = DecodeFixed32(ptr),
                                   !.load = DecodeFixed32Load(ptr),
                                   !.assemble = DecodeFixed32Assemble(ptr)]
                  ELSE [cod EXCEPT !.phase = "got", !.decoded = DecodeFixed64(ptr),
                                   !.load = DecodeFixed64Load(ptr),
                                   !.assemble = DecodeFixed64Assemble(ptr)]
    /\ UNCHANGED <<arena, allocs, listVars, batch, table>>

\* Bits 8j .. 8j+7 of v as a number.
RECURSIVE Octet(_, _, _)
Octet(v, j, t) == IF t = 8 THEN 0 ELSE v[8 * j + t + 1] * Pow2(t) + Octet(v, j, t + 1)

\* The bytes the Put of the varint caller appended.
Encoded == SubSeq(cod.dst, Len(cod.before) + 1, Len(cod.before) + cod.emitted)

\* C13: the encoders emit v as 7-bit groups, least significant group first;
\* a byte has its high bit (0x80) set exactly when another byte follows; the
\* output has at most 5 bytes for a 32-bit and 10 for a 64-bit value; 300
\* encodes as 0xAC 0x02.
C13_VarintFormat ==
    (cod.kind = "varint" /\ cod.phase = "put") =>
      /\ cod.emitted >= 1
      /\ cod.emitted <= (IF cod.width = 32 THEN kMaxVarint32Length ELSE kMaxVarint64Length)
      /\ \A j \in 1..cod.emitted :
           /\ Encoded[j] % 128 = ToInt(Shr(cod.v, 7 * (j - 1)), 7)
           /\ (Encoded[j] >= 128) <=> (j < cod.emitted)
      /\ \A j \in 0..(cod.width - 1) : j >= 7 * cod.emitted => cod.v[j + 1] = 0
      /\ cod.v = FromInt(300, cod.width) => Encoded = <<172, 2>>

\* PutVarint32 has just encoded 300.
C13_Witness ==
    /\ cod.kind = "varint" /\ cod.phase = "put" /\ cod.width = 32
    /\ cod.v = FromInt(300, 32) /\ cod.emitted = 2

\* C14: every string, the empty one included, comes back from
\* GetLengthPrefixedSlice exactly as PutLengthPrefixedSlice appended it, and
\* the input then stands exactly past the record, so records appended back
\* to back decode one after another in append order.
C14_LengthPrefixedRoundTrip ==
    (cod.kind = "records" /\ cod.phase \in {"get", "done"}) =>
      /\ \A i \in 1..Len(cod.outs) :
           /\ cod.outs[i].ok
           /\ cod.outs[i].bytes = cod.recs[i]
           /\ cod.outs[i].at = EndOfRecord(cod, i)
      /\ cod.input = Slice(EndOfRecord(cod, Len(cod.outs)),
                           StrBase + Len(cod.dst) - EndOfRecord(cod, Len(cod.outs)))
      /\ cod.phase = "done" => (Len(cod.outs) = Len(cod.recs) /\ cod.input.size_ = 0)

\* An empty string followed by one with a two-byte prefix have both been
\* decoded by the Slice form.
C14_Witness ==
    /\ cod.kind = "records" /\ cod.phase = "done" /\ cod.form = "slice"
    /\ Len(cod.recs) = 2 /\ Len(cod.outs) = 2
    /\ cod.recs[1] = <<>> /\ Len(cod.recs[2]) = 130

\* The end of the input the raw caller supplied, and the length its prefix
\* declares (q = nullptr when the prefix is no varint32).
Bound0 == cod.input0.data_ + cod.input0.size_

Declared == GetVarint32Ptr(cod.mem, cod.input0.data_, Bound0, LenLocal)

\* C15: both forms of GetLengthPrefixedSlice fail when the declared length
\* exceeds the bytes that remain after the prefix, and a slice returned on
\* success lies within the supplied bound.
C15_LengthPrefixedBound ==
    (cod.kind = "raw" /\ cod.phase = "done"
       /\ cod.fn \in {"GetLengthPrefixedSlice", "GetLengthPrefixedSlicePtr"}) =>
      /\ (Declared.q # nullptr /\ Less(FromInt(Bound0 - Declared.q, 32), Declared.value))
           => ~cod.ok
      /\ cod.ok =>
           /\ cod.result.data_ >= cod.input0.data_
           /\ cod.result.size_ >= 0
           /\ cod.result.data_ + cod.result.size_ <= Bound0
           /\ cod.fn = "GetLengthPrefixedSlice" =>
                (cod.input.size_ >= 0 /\ cod.input.data_ + cod.input.size_ = Bound0)
           /\ cod.fn = "GetLengthPrefixedSlicePtr" => cod.q <= Bound0

\* The pointer form has refused a prefix that declares 5 bytes where 1
\* remains before the limit, although the memory goes on beyond the limit.
C15_Witness ==
    /\ cod.kind = "raw" /\ cod.phase = "done" /\ cod.fn = "GetLengthPrefixedSlicePtr"
    /\ cod.input0.size_ = 2 /\ Len(cod.mem) > 2
    /\ Declared.q # nullptr /\ Declared.value = FromInt(5, 32)
    /\ ~cod.ok

\* C16: when GetLengthPrefixedSlice(Slice*, Slice*) returns false, *input and
\* *result are as they were before the call.
C16_FailureLeavesInput ==
    (cod.kind = "raw" /\ cod.phase = "done" /\ cod.fn = "GetLengthPrefixedSlice"
       /\ ~cod.ok) =>
      /\ cod.input = cod.input0
      /\ cod.result = StaleResult

\* C17: the varint decoders fail when the input ends before a byte without
\* the continuation bit, or when more than 5 (32-bit) or 10 (64-bit) bytes
\* carry it, and a failure leaves the input slice and *value as they were.
C17_MalformedVarintFails ==
    (cod.kind = "raw" /\ cod.phase = "done"
       /\ cod.fn \in {"GetVarint32", "GetVarint64", "GetVarint32Ptr", "GetVarint64Ptr"}) =>
      LET w == Len(cod.value)
          lead == Lead(cod.mem, cod.input0.data_, Bound0)
          most == IF w = 32 THEN kMaxVarint32Length ELSE kMaxVarint64Length
      IN  /\ (lead = cod.input0.size_ \/ lead > most) => ~cod.ok
          /\ ~cod.ok => (cod.input = cod.input0 /\ cod.value = StaleValue(w)
                           /\ cod.q = nullptr)

\* GetVarint64 has refused eleven bytes with the continuation bit followed
\* by a byte without it.
C17_Witness ==
    /\ cod.kind = "raw" /\ cod.phase = "done" /\ cod.fn = "GetVarint64"
    /\ Lead(cod.mem, cod.input0.data_, Bound0) = 11
    /\ cod.input0.size_ = 12
    /\ ~cod.ok

\* C18: BitStreamGetInt(offset, bits) after BitStreamPutInt(offset, bits,
\* value) returns value truncated to its bits least significant bits, and
\* the assertion that closes BitStreamPutInt never fails.
C18_BitStreamInverse ==
    cod.kind = "bits" =>
      /\ ~cod.aborted
      /\ cod.phase # "aborted"
      /\ cod.phase = "got" =>
           /\ cod.got = Truncated(cod.value, cod.bits)
           /\ \A j \in 1..64 : cod.got[j] = (IF j <= cod.bits THEN cod.value[j] ELSE 0)

\* A 64-bit field that starts mid-byte, so that it spans nine bytes, has
\* been written and read back.
C18_Witness ==
    /\ cod.kind = "bits" /\ cod.phase = "got"
    /\ cod.bits = 64 /\ cod.offset % 8 = 5
    /\ cod.got = cod.value

\* C19: BitStreamPutInt leaves every bit outside [offset, offset+bits) as it
\* was, and bit j of the value lands at absolute bit offset+j.
C19_BitStreamFrame ==
    (cod.kind = "bits" /\ cod.phase \in {"put", "got"}) =>
      /\ Len(cod.buf) = Len(cod.buf0)
      /\ \A k \in 0..(8 * Len(cod.buf) - 1) :
           BitAt(cod.buf, k) =
             (IF cod.offset <= k /\ k < cod.offset + cod.bits
              THEN cod.value[k - cod.offset + 1]
              ELSE BitAt(cod.buf0, k))

\* A field of zeros and ones that starts mid-byte and crosses a byte
\* boundary has been written into a buffer of 0xFF bytes that goes on after it.
C19_Witness ==
    /\ cod.kind = "bits" /\ cod.phase = "put"
    /\ cod.offset = 3 /\ cod.bits = 11
    /\ cod.value[1] = 1 /\ cod.value[2] = 0
    /\ cod.buf0[1] = 255 /\ Len(cod.buf) = BitBufLen
    /\ cod.buf # cod.buf0

\* C38: the std::string overload of BitStreamPutInt, called with
\* (offset + bits + 7) / 8 <= dst->size() and bits <= 64, reads and writes
\* only string positions smaller than dst->size() and tmpBuf positions
\* smaller than 9, and leaves dst equal to what the pointer overload
\* produces on the same bytes.
C38_StringOverloadInBounds ==
    (cod.kind = "bits" /\ cod.phase \in {"string", "aborted"} /\ cod.touched # {}) =>
      /\ cod.phase = "string"
      /\ \A pos \in cod.touched : pos < Len(cod.buf0)
      /\ \A idx \in cod.tmp : idx < kTmpBufLen
      /\ cod.buf = BitStreamPutInt(cod.buf0, Len(cod.buf0), cod.offset, cod.bits, cod.value).dst

\* C20: the fixed-width encoders store the value least significant byte
\* first in exactly 4 / 8 bytes, the decoders return the value from those
\* bytes, and the decoders' direct-load and byte-assembly branches agree.
C20_FixedRoundTrip ==
    (cod.kind = "fixed" /\ cod.phase # "start") =>
      /\ Len(cod.dst) = Len(cod.before) + cod.width \div 8
      /\ \A j \in 0..(cod.width \div 8 - 1) :
           cod.dst[Len(cod.before) + j + 1] = Octet(cod.v, j, 0)
      /\ cod.phase = "got" =>
           /\ cod.decoded = cod.v
           /\ cod.load = cod.assemble
           /\ cod.load = cod.v

\* A 64-bit value whose bytes all differ has been appended after another
\* byte and decoded.
C20_Witness ==
    /\ cod.kind = "fixed" /\ cod.phase = "got" /\ cod.width = 64
    /\ cod.before # <<>>
    /\ cod.v = OnesBelow(37, 64)
    /\ cod.dst[Len(cod.before) + 5] = 31

\* C21: GetVarint32Ptr, GetVarint32PtrFallback and GetVarint64Ptr dereference
\* only addresses in [p, limit-1], whatever the input: empty, cut short, or
\* continuation bytes all the way to the limit.
C21_ReadsWithinLimit ==
    (cod.kind = "raw" /\ cod.phase = "done"
       /\ cod.fn \in {"GetVarint32Ptr", "GetVarint32PtrFallback", "GetVarint64Ptr"}) =>
      \A a \in cod.reads : cod.input0.data_ <= a /\ a < Bound0

\* GetVarint32PtrFallback has read every byte of a three-byte input, all of
\* them with the continuation bit, and has failed at the limit with more
\* memory behind it.
C21_Witness ==
    /\ cod.kind = "raw" /\ cod.phase = "done" /\ cod.fn = "GetVarint32PtrFallback"
    /\ cod.input0.size_ = 3
    /\ Lead(cod.mem, cod.input0.data_, Bound0) = 3
    /\ cod.reads = cod.input0.data_ .. (Bound0 - 1)
    /\ Len(cod.mem) > cod.input0.size_
    /\ ~cod.ok

InitCoding == InitVarint \/ InitRecords \/ InitRaw \/ InitBits \/ InitFixed

NextCoding ==
    \/ CallPutVarint
    \/ AppendTail
    \/ CallGetVarint
    \/ CallPutLengthPrefixedSlice
    \/ CallGetLengthPrefixedSlice
    \/ CallGetLengthPrefixedSlicePtr
    \/ RawGetVarint32
    \/ RawGetVarint64
    \/ RawGetVarint32Ptr
    \/ RawGetVarint32PtrFallback
    \/ RawGetVarint64Ptr
    \/ RawGetLengthPrefixedSlice
    \/ RawGetLengthPrefixedSlicePtr
    \/ CallBitStreamPutInt
    \/ CallBitStreamGetInt
    \/ CallPutFixed
    \/ CallDecodeFixed

SpecCoding == InitCoding /\ [][NextCoding]_vars

\* Callers of the std::string overload of BitStreamPutInt alone.
NextBitString == CallBitStreamPutIntString

SpecBitString == InitBits /\ [][NextBitString]_vars


\* Hash ----------------------------------------------------------------------

BitXor(a, b) == AsSeq([i \in 1..Len(a) |-> (a[i] + b[i]) % 2])

\* a times bits lo..hi of b, modulo 2^width: a shifted to every bit set in
\* b, the two halves of the range added. (The test of the widths has both
\* halves evaluated before they are added.)
RECURSIVE MulRange(_, _, _, _)
MulRange(a, b, lo, hi) ==
    IF \A i \in lo..hi : b[i] = 0 THEN FromInt(0, Len(a))
    ELSE IF lo = hi THEN Shl(a, lo - 1)
    ELSE LET mid == (lo + hi) \div 2
             low == MulRange(a, b, lo, mid)
             high == MulRange(a, b, mid + 1, hi)
         IN  IF Len(low) = Len(high) THEN Add(low, high) ELSE <<>>

Mul(a, b) == MulRange(a, b, 1, Len(b))

\* const uint32_t m = 0xc6a4a793, from its 16-bit halves 0xa793 and 0xc6a4.
Hash_m == BitsOfLimbs(<<42899, 50852>>, 32)

Hash_r == 24

\* Whether plain char is a signed type is the build's choice.
CharSignedness == BOOLEAN

\* The int that data[i] is promoted to, as the 32 bits it has: the byte
\* itself, or on a build with signed char the byte sign-extended.
CharAt(mem, a, charSigned) ==
    IF charSigned /\ At(mem, a) >= 128
    THEN BitOr(FromInt(At(mem, a), 32), BitNot(OnesBelow(8, 32)))
    ELSE FromInt(At(mem, a), 32)

\* uint32_t h = seed ^ (n * m), the product taken in size_t.
HashSeed(n, seed) ==
    Cast(BitXor(Cast(seed, 64), Mul(FromInt(n, 64), Cast(Hash_m, 64))), 32)

\* The loop over whole words: where data stops and the h reached. (The
\* test of h's width has h evaluated before the next iteration builds on
\* it.)
RECURSIVE HashWords(_, _, _, _)
HashWords(mem, data, limit, h) ==
    IF Len(h) = 32 /\ data + 4 <= limit
    THEN LET w == DecodeFixed32(SubSeq(mem, data - StrBase + 1, data - StrBase + 4))
             hm == Mul(Add(h, w), Hash_m)
         IN  HashWords(mem, data + 4, limit, BitXor(hm, Shr(hm, 16)))
    ELSE [data |-> data, h |-> h]

\* The switch with a fault seeded: the last label is default, so the
\* final mix is done when no byte is left over as well.
HashRestDefault(mem, data, limit, h, charSigned) ==
    LET left == limit - data
        h3 == IF left = 3 THEN Add(h, Shl(CharAt(mem, data + 2, charSigned), 16)) ELSE h
        h2 == IF left \in {2, 3} THEN Add(h3, Shl(CharAt(mem, data + 1, charSigned), 8)) ELSE h3
        h1 == IF left \in {1, 2, 3} THEN Add(h2, CharAt(mem, data, charSigned)) ELSE h2
        hm == Mul(h1, Hash_m)
    IN  BitXor(hm, Shr(hm, Hash_r))

\* switch (limit - data) with its fall-through cases 3, 2 and 1.
HashRest(mem, data, limit, h, charSigned) ==
    LET left == limit - data
        h3 == IF left = 3 THEN Add(h, Shl(CharAt(mem, data + 2, charSigned), 16)) ELSE h
        h2 == IF left \in {2, 3} THEN Add(h3, Shl(CharAt(mem, data + 1, charSigned), 8)) ELSE h3
    IN  IF left \in {1, 2, 3}
        THEN LET hm == Mul(Add(h2, CharAt(mem, data, charSigned)), Hash_m)
             IN  BitXor(hm, Shr(hm, Hash_r))
        ELSE h

\* Hash(data, n, seed) on a build whose char is signed or not.
Hash(mem, data, n, seed, charSigned) ==
    LET limit == data + n
        w == HashWords(mem, data, limit, HashSeed(n, seed))
    IN  HashRest(mem, w.data, limit, w.h, charSigned)

\* Callers of Hash: a buffer of up to MaxHashLen bytes, of which all or none
\* are hashed, with one of a few seeds.
MaxHashLen == 5

HashBytes == {1, 200}

\* 0, 1 and 0xbc9f1d34.
HashSeeds == {FromInt(0, 32), FromInt(1, 32), BitsOfLimbs(<<7476, 48287>>, 32)}

HashIdle ==
    /\ arena = EmptyArena /\ allocs = <<>> /\ NoSkipList
    /\ batch = NoBatch /\ table = NoTable

InitHash ==
    /\ HashIdle
    /\ \E len \in 0..MaxHashLen, seed \in HashSeeds, charSigned \in CharSignedness :
         \E mem \in [1..len -> HashBytes], n \in {0, len} :
           cod = [kind |-> "hash", phase |-> "start", mem |-> AsSeq(mem), n |-> n,
                  seed |-> seed, charSigned |-> charSigned, h |-> FromInt(0, 32)]

CallHash ==
    /\ cod.kind = "hash" /\ cod.phase = "start"
    /\ cod' = [cod EXCEPT !.phase = "done",
                          !.h = Hash(cod.mem, StrBase, cod.n, cod.seed, cod.charSigned)]
    /\ UNCHANGED <<arena, allocs, listVars, batch, table>>

NextHash == CallHash

SpecHash == InitHash /\ [][NextHash]_vars

\* The reference computation, on numbers held as four octets, least
\* significant first, in integer arithmetic.
RECURSIVE XorInt(_, _)
XorInt(a, b) ==
    IF a = 0 /\ b = 0 THEN 0
    ELSE ((a + b) % 2) + 2 * XorInt(a \div 2, b \div 2)

RefXor(x, y) == [i \in 1..4 |-> XorInt(x[i], y[i])] \o <<>>

RECURSIVE RefCarry(_, _, _)
RefCarry(d, i, carry) ==
    IF i > 4 THEN <<>>
    ELSE <<(d[i] + carry) % 256>> \o RefCarry(d, i + 1, (d[i] + carry) \div 256)

RefAdd(x, y) == RefCarry([i \in 1..4 |-> x[i] + y[i]], 1, 0)

RefMul(x, y) ==
    RefCarry([k \in 1..4 |->
                (IF k >= 1 THEN x[1] * y[k] ELSE 0) + (IF k >= 2 THEN x[2] * y[k - 1] ELSE 0)
                  + (IF k >= 3 THEN x[3] * y[k - 2] ELSE 0) + (IF k >= 4 THEN x[4] * y[k - 3] ELSE 0)],
             1, 0)

RefShr16(x) == <<x[3], x[4], 0, 0>>

RefShr24(x) == <<x[4], 0, 0, 0>>

Ref_m == <<147, 167, 164, 198>>

RECURSIVE RefWords(_, _, _, _)
RefWords(bytes, i, n, h) ==
    IF i + 4 <= n
    THEN LET hm == RefMul(RefAdd(h, SubSeq(bytes, i + 1, i + 4)), Ref_m)
         IN  RefWords(bytes, i + 4, n, RefXor(hm, RefShr16(hm)))
    ELSE h

HashReference(bytes, n, seed) ==
    LET h == RefWords(bytes, 0, n, RefXor(seed, RefMul(<<n, 0, 0, 0>>, Ref_m)))
        i == 4 * (n \div 4)
        left == n - i
        h3 == IF left = 3 THEN RefAdd(h, <<0, 0, bytes[i + 3], 0>>) ELSE h
        h2 == IF left >= 2 THEN RefAdd(h3, <<0, bytes[i + 2], 0, 0>>) ELSE h3
    IN  IF left >= 1
        THEN LET hm == RefMul(RefAdd(h2, <<bytes[i + 1], 0, 0, 0>>), Ref_m)
             IN  RefXor(hm, RefShr24(hm))
        ELSE h

\* C22: for every seed s and every data pointer, Hash(data, 0, s) returns s.
C22_HashOfNothingIsSeed ==
    (cod.kind = "hash" /\ cod.phase = "done" /\ cod.n = 0) => cod.h = cod.seed

\* Hash has returned for length 0 with seed 0xbc9f1d34 and a pointer to a
\* buffer that holds bytes.
C22_Witness ==
    /\ cod.kind = "hash" /\ cod.phase = "done" /\ cod.n = 0
    /\ cod.seed = BitsOfLimbs(<<7476, 48287>>, 32)
    /\ Len(cod.mem) = 3
    /\ cod.h = cod.seed

\* C23: for every input, Hash returns what the reference computation gives
\* in 32-bit wrapping arithmetic, each leftover byte counting as 0..255.
C23_HashIsReference ==
    (cod.kind = "hash" /\ cod.phase = "done") =>
      ObjectBytes(cod.h) = HashReference(cod.mem, cod.n, ObjectBytes(cod.seed))


\* Mutation batch -------------------------------------------------------------

\* The header of rep_: a fixed64 sequence number and a fixed32 record count.
kHeader == 12

\* The tag bytes of the three kinds of record.
kTypeDeletion == 0

kTypeValue == 1

kTypeMerge == 2

\* An operation as it is appended and as a handler receives it; a Delete
\* has no value.
Op(kind, k, v) == [kind |-> kind, key |-> k, value |-> v]

\* rep_ of a batch without records: sequence number 0 and count 0.
EmptyBatchRep == PutFixed32(PutFixed64(<<>>, FromInt(0, 64)), FromInt(0, 32))

\* WriteBatch(): the rep_ of the batch constructed.
WriteBatchNew == EmptyBatchRep

\* Clear with a fault seeded: the count is reset and the records stay.
WriteBatchClearCountOnly(rep) ==
    SubSeq(rep, 1, 8) \o EncodeFixed32(FromInt(0, 32)) \o SubSeq(rep, kHeader + 1, Len(rep))

\* Clear(): rep_ afterwards.
WriteBatchClear(rep) == EmptyBatchRep

\* The record count in the header, and rep_ with one more counted.
WriteBatchCount(rep) == DecodeFixed32(SubSeq(rep, 9, kHeader))

WriteBatchCounted(rep) ==
    SubSeq(rep, 1, 8) \o EncodeFixed32(Add(WriteBatchCount(rep), FromInt(1, 32)))
      \o SubSeq(rep, kHeader + 1, Len(rep))

\* Put with a fault seeded: the record goes in front of the earlier ones.
WriteBatchPutInFront(rep, k, v) ==
    SubSeq(WriteBatchCounted(rep), 1, kHeader)
      \o PutLengthPrefixedSlice(PutLengthPrefixedSlice(<<kTypeValue>>, k), v)
      \o SubSeq(rep, kHeader + 1, Len(rep))

\* Put(key, value), Merge(key, value) and Delete(key): rep_ afterwards.
WriteBatchPut(rep, k, v) ==
    PutLengthPrefixedSlice(
        PutLengthPrefixedSlice(Append(WriteBatchCounted(rep), kTypeValue), k), v)

WriteBatchMerge(rep, k, v) ==
    PutLengthPrefixedSlice(
        PutLengthPrefixedSlice(Append(WriteBatchCounted(rep), kTypeMerge), k), v)

WriteBatchDelete(rep, k) ==
    PutLengthPrefixedSlice(Append(WriteBatchCounted(rep), kTypeDeletion), k)

\* std::string Data() { return rep_; }
WriteBatchData(rep) == rep

\* The constructor with a fault seeded: the string is taken as a C string,
\* up to its first zero byte.
RECURSIVE WriteBatchFromCString(_)
WriteBatchFromCString(rep) ==
    IF rep = <<>> \/ Head(rep) = 0 THEN <<>>
    ELSE <<Head(rep)>> \o WriteBatchFromCString(Tail(rep))

\* WriteBatch(std::string rep) : rep_(rep) {}
WriteBatchFromRep(rep) == rep

\* A handler that applies the operations on the key "key" to a store of one
\* key, and keeps what it was called with. overrides tells whether it has a
\* Merge of its own, which appends the operand to the stored value.
TheKey == <<107, 101, 121>>

Absent == <<0>>

NewHandler(overrides) ==
    [overrides |-> overrides, store |-> Absent, calls |-> <<>>, thrown |-> FALSE]

HandlerPut(h, k, v) ==
    [h EXCEPT !.calls = Append(@, Op("Put", k, v)),
              !.store = IF k = TheKey THEN v ELSE @]

HandlerDelete(h, k) ==
    [h EXCEPT !.calls = Append(@, Op("Delete", k, <<>>)),
              !.store = IF k = TheKey THEN Absent ELSE @]

HandlerMergeOwn(h, k, v) ==
    [h EXCEPT !.calls = Append(@, Op("Merge", k, v)),
              !.store = IF k = TheKey THEN (IF @ = Absent THEN v ELSE @ \o v) ELSE @]

\* The default Handler::Merge with a fault seeded: it returns without
\* doing anything.
HandlerMergeSilent(h, k, v) == h

\* The default Handler::Merge: it throws.
HandlerMergeDefault(h, k, v) == [h EXCEPT !.thrown = TRUE]

HandlerMerge(h, k, v) ==
    IF h.overrides THEN HandlerMergeOwn(h, k, v) ELSE HandlerMergeDefault(h, k, v)

\* Iterate from the record at which input starts: the status returned (or
\* that the handler threw) and the handler afterwards.
RECURSIVE IterateFrom(_, _, _)
IterateFrom(mem, input, h) ==
    IF input.size_ = 0 THEN [status |-> "OK", handler |-> h]
    ELSE LET tag == At(mem, input.data_)
             k == GetLengthPrefixedSlice(mem, RemovePrefix(input, 1), StaleResult)
             v == GetLengthPrefixedSlice(mem, k.input, StaleResult)
         IN  IF tag = kTypeDeletion /\ k.ok
             THEN IterateFrom(mem, k.input, HandlerDelete(h, BytesOf(mem, k.result)))
             ELSE IF tag = kTypeValue /\ k.ok /\ v.ok
             THEN IterateFrom(mem, v.input,
                              HandlerPut(h, BytesOf(mem, k.result), BytesOf(mem, v.result)))
             ELSE IF tag = kTypeMerge /\ k.ok /\ v.ok
             THEN LET m == HandlerMerge(h, BytesOf(mem, k.result), BytesOf(mem, v.result))
                  IN  IF m.thrown THEN [status |-> "threw", handler |-> m]
                      ELSE IterateFrom(mem, v.input, m)
             ELSE [status |-> "Corruption", handler |-> h]

\* Iterate(handler) on a batch whose rep_ is rep.
Iterate(rep, h) ==
    IF Len(rep) < kHeader THEN [status |-> "Corruption", handler |-> h]
    ELSE IterateFrom(rep, Slice(StrBase + kHeader, Len(rep) - kHeader), h)

\* Callers of a batch: up to MaxOps calls of Put, Delete, Merge and Clear,
\* the Puts storing "v1", "v2", ... in turn; Iterate with either kind of
\* handler once the batch has changed; and once, a second batch constructed
\* from Data(), which is iterated as well. ops are the operations appended
\* since the batch was constructed or cleared, dropped counts those
\* appended before the last Clear, and seen is what the last Iterate gave
\* since the batch was changed.
MaxOps == 4

Version(n) == <<118, 48 + n>>

MergeOperand == <<109>>

NotSeen == [status |-> "none", handler |-> NewHandler(FALSE)]

NoCopy == [made |-> FALSE, rep_ |-> <<>>, of |-> <<>>, ops |-> <<>>, seen |-> NotSeen]

BatchIdle ==
    /\ arena = EmptyArena /\ allocs = <<>> /\ NoSkipList
    /\ cod = NoCoding /\ table = NoTable

InitBatch ==
    /\ BatchIdle
    /\ batch = [kind |-> "batch", rep_ |-> WriteBatchNew, ops |-> <<>>, calls |-> 0,
                puts |-> 0, dropped |-> 0, seen |-> NotSeen, copy |-> NoCopy]

BatchPut ==
    /\ batch.kind = "batch" /\ batch.calls < MaxOps
    /\ batch' = [batch EXCEPT !.rep_ = WriteBatchPut(@, TheKey, Version(batch.puts + 1)),
                              !.ops = Append(@, Op("Put", TheKey, Version(batch.puts + 1))),
                              !.puts = @ + 1, !.calls = @ + 1, !.seen = NotSeen]
    /\ UNCHANGED <<arena, allocs, listVars, cod, table>>

BatchMerge ==
    /\ batch.kind = "batch" /\ batch.calls < MaxOps
    /\ batch' = [batch EXCEPT !.rep_ = WriteBatchMerge(@, TheKey, MergeOperand),
                              !.ops = Append(@, Op("Merge", TheKey, MergeOperand)),
                              !.calls = @ + 1, !.seen = NotSeen]
    /\ UNCHANGED <<arena, allocs, listVars, cod, table>>

BatchDelete ==
    /\ batch.kind = "batch" /\ batch.calls < MaxOps
    /\ batch' = [batch EXCEPT !.rep_ = WriteBatchDelete(@, TheKey),
                              !.ops = Append(@, Op("Delete", TheKey, <<>>)),
                              !.calls = @ + 1, !.seen = NotSeen]
    /\ UNCHANGED <<arena, allocs, listVars, cod, table>>

BatchClear ==
    /\ batch.kind = "batch" /\ batch.calls < MaxOps
    /\ batch' = [batch EXCEPT !.rep_ = WriteBatchClear(@), !.ops = <<>>,
                              !.dropped = @ + Len(batch.ops),
                              !.calls = @ + 1, !.seen = NotSeen]
    /\ UNCHANGED <<arena, allocs, listVars, cod, table>>

BatchIterate ==
    /\ batch.kind = "batch" /\ batch.seen = NotSeen
    /\ \E overrides \in BOOLEAN :
         batch' = [batch EXCEPT !.seen = Iterate(batch.rep_, NewHandler(overrides))]
    /\ UNCHANGED <<arena, allocs, listVars, cod, table>>

BatchCopy ==
    /\ batch.kind = "batch" /\ ~batch.copy.made
    /\ batch' = [batch EXCEPT !.copy = [made |-> TRUE,
                                        rep_ |-> WriteBatchFromRep(WriteBatchData(batch.rep_)),
                                        of |-> batch.rep_, ops |-> batch.ops,
                                        seen |-> NotSeen]]
    /\ UNCHANGED <<arena, allocs, listVars, cod, table>>

BatchIterateCopy ==
    /\ batch.kind = "batch" /\ batch.copy.made /\ batch.copy.seen = NotSeen
    /\ \E overrides \in BOOLEAN :
         batch' = [batch EXCEPT !.copy.seen = Iterate(batch.copy.rep_, NewHandler(overrides))]
    /\ UNCHANGED <<arena, allocs, listVars, cod, table>>

NextBatch ==
    \/ BatchPut
    \/ BatchMerge
    \/ BatchDelete
    \/ BatchClear
    \/ BatchIterate
    \/ BatchCopy
    \/ BatchIterateCopy

SpecBatch == InitBatch /\ [][NextBatch]_vars


HasMerge(ops) == \E i \in 1..Len(ops) : ops[i].kind = "Merge"

\* The operations in front of the first Merge.
BeforeMerge(ops) ==
    SubSeq(ops, 1, (CHOOSE i \in 1..Len(ops) :
                       /\ ops[i].kind = "Merge"
                       /\ \A j \in 1..(i - 1) : ops[j].kind # "Merge") - 1)

\* Put(key, "v1"); Delete(key); Put(key, "v2"); Put(key, "v3").
FourUpdates ==
    <<Op("Put", TheKey, Version(1)), Op("Delete", TheKey, <<>>),
      Op("Put", TheKey, Version(2)), Op("Put", TheKey, Version(3))>>

\* C24: Iterate calls the handler once for every record appended by Put,
\* Delete and Merge, in the order of the appends, with the same kind, key
\* and value; after Put v1, Delete, Put v2, Put v3 the store holds v3.
C24_ReplayInAppendOrder ==
    (/\ batch.kind = "batch" /\ batch.dropped = 0
     /\ batch.seen.status # "none"
     /\ batch.seen.handler.overrides \/ ~HasMerge(batch.ops)) =>
      /\ batch.seen.status = "OK"
      /\ batch.seen.handler.calls = batch.ops
      /\ batch.ops = FourUpdates => batch.seen.handler.store = Version(3)

\* Iterate has replayed Put v1, Delete, Put v2, Put v3 and the store holds
\* v3.
C24_Witness ==
    /\ batch.kind = "batch" /\ batch.ops = FourUpdates
    /\ batch.seen.status = "OK"
    /\ batch.seen.handler.calls = FourUpdates
    /\ batch.seen.handler.store = Version(3)

\* C25: a batch constructed from the string another batch's Data() gave has
\* the same bytes as its Data(), and its Iterate replays the operations the
\* original held: the same kinds, keys and values in the same order.
C25_RoundTrip ==
    (batch.kind = "batch" /\ batch.copy.made) =>
      /\ WriteBatchData(batch.copy.rep_) = batch.copy.of
      /\ batch.copy.seen.status # "none" =>
           LET original == Iterate(batch.copy.of, NewHandler(batch.copy.seen.handler.overrides))
           IN  /\ batch.copy.seen.status = original.status
               /\ batch.copy.seen.handler.calls = original.handler.calls
               /\ batch.copy.seen.handler.overrides =>
                    batch.copy.seen.handler.calls = batch.copy.ops

\* A batch of three records, among them a Delete and a Merge, was copied
\* through Data(); the original has been changed since, and the copy has
\* replayed the three operations.
C25_Witness ==
    /\ batch.kind = "batch" /\ batch.copy.made
    /\ Len(batch.copy.ops) = 3
    /\ HasMerge(batch.copy.ops)
    /\ \E i \in 1..3 : batch.copy.ops[i].kind = "Delete"
    /\ batch.rep_ # batch.copy.of
    /\ batch.copy.seen.status = "OK"
    /\ batch.copy.seen.handler.calls = batch.copy.ops

\* C26: after Clear(), Data() is the header-only buffer of an empty batch
\* until something is appended, and Iterate replays the records appended
\* after the Clear() and no others: none if there are none.
C26_ClearDropsRecords ==
    (batch.kind = "batch" /\ batch.dropped > 0) =>
      /\ batch.ops = <<>> => WriteBatchData(batch.rep_) = EmptyBatchRep
      /\ (/\ batch.seen.status # "none"
          /\ batch.seen.handler.overrides \/ ~HasMerge(batch.ops)) =>
           /\ batch.seen.status = "OK"
           /\ batch.seen.handler.calls = batch.ops

\* Two records were appended, the batch was cleared, one more record was
\* appended, and Iterate has replayed that one only.
C26_Witness ==
    /\ batch.kind = "batch" /\ batch.dropped = 2
    /\ Len(batch.ops) = 1
    /\ batch.seen.status = "OK"
    /\ batch.seen.handler.calls = batch.ops

\* C27: Iterate over a batch with a Merge record, with a handler that has
\* no Merge of its own, ends in the default Handler::Merge throwing: the
\* operations in front of the Merge have been applied, the Merge and what
\* follows it have not.
C27_DefaultMergeThrows ==
    (/\ batch.kind = "batch" /\ batch.seen.status # "none"
     /\ ~batch.seen.handler.overrides /\ HasMerge(batch.ops)) =>
      /\ batch.seen.status = "threw"
      /\ batch.seen.handler.thrown
      /\ batch.seen.handler.calls = BeforeMerge(batch.ops)
      /\ \A i \in 1..Len(batch.seen.handler.calls) :
           batch.seen.handler.calls[i].kind # "Merge"

\* Iterate over Put v1, Merge, Put v2 with such a handler has thrown at the
\* Merge, and the store holds v1.
C27_Witness ==
    /\ batch.kind = "batch" /\ Len(batch.ops) = 3
    /\ batch.ops[1].kind = "Put" /\ batch.ops[2].kind = "Merge" /\ batch.ops[3].kind = "Put"
    /\ ~batch.seen.handler.overrides
    /\ batch.seen.status = "threw"
    /\ batch.seen.handler.calls = <<batch.ops[1]>>
    /\ batch.seen.handler.store = Version(1)


\* Mutable table ---------------------------------------------------------------

\* Who holds references to the table: the write path that owns it, the
\* flush path, and readers.
MaxReaders == 2

MaxAdds == 2

Holders == {"writer", "flush", "reader"}

SequenceNumbers == {1, 5}

FileNumbers == {7, 9}

\* The table as its constructor leaves it: no reference yet, both flush
\* flags false, no file number, no first sequence number.
NewMemTable ==
    [kind |-> "table", refs_ |-> 0, arena_ |-> "live",
     flush_in_progress_ |-> FALSE, flush_completed_ |-> FALSE, file_number_ |-> 0,
     first_seqno_ |-> 0, entries |-> 0, destroyed |-> FALSE,
     held |-> [h \in Holders |-> 0]]

\* ~MemTable(): the table is gone, and its members, the Arena among them,
\* with it.
MemTableDestroy(t) == [t EXCEPT !.destroyed = TRUE, !.arena_ = "destroyed"]

\* Ref().
MemTableRef(t) == [t EXCEPT !.refs_ = @ + 1]

\* Unref() with a fault seeded: the table is deleted when one reference is
\* left.
MemTableUnrefEarly(t) ==
    IF t.refs_ - 1 <= 1
    THEN MemTableDestroy([t EXCEPT !.refs_ = @ - 1])
    ELSE [t EXCEPT !.refs_ = @ - 1]

\* Unref(): the table is deleted when the count reaches zero.
MemTableUnref(t) ==
    IF t.refs_ - 1 <= 0
    THEN MemTableDestroy([t EXCEPT !.refs_ = @ - 1])
    ELSE [t EXCEPT !.refs_ = @ - 1]

\* Whether the write path may still insert, with a fault seeded: a table
\* is frozen only when its flush has completed.
MemTableFrozenWhenFlushed(t) == t.flush_completed_

\* Whether the table is frozen: a flush has been requested.
MemTableFrozen(t) == t.flush_in_progress_

\* An insert of a key-value of sequence number seq: the first one sets
\* first_seqno_.
MemTableAdd(t, seq) ==
    [t EXCEPT !.entries = @ + 1, !.first_seqno_ = IF t.entries = 0 THEN seq ELSE @]

\* The flush scheduler picks the table; the flush path reports the file
\* written.
MemTableFlushRequested(t) == [t EXCEPT !.flush_in_progress_ = TRUE]

MemTableFlushed(t, file) == [t EXCEPT !.flush_completed_ = TRUE, !.file_number_ = file]

\* When a holder may drop a reference it holds: the write path only once
\* the flush has completed, the flush path once it has completed the flush,
\* a reader when its read is over.
MayDrop(t, h) ==
    /\ t.held[h] > 0
    /\ h \in {"writer", "flush"} => t.flush_completed_

\* When a holder may take a reference: the write path at construction, the
\* flush path when the flush is requested and not completed, a reader from
\* a table somebody holds.
MayTake(t, h) ==
    /\ ~t.destroyed
    /\ h = "writer" => (t.refs_ = 0 /\ t.entries = 0 /\ ~t.flush_in_progress_)
    /\ h = "flush" => (t.held[h] = 0 /\ t.flush_in_progress_ /\ ~t.flush_completed_)
    /\ h = "reader" => (t.refs_ > 0 /\ t.held[h] < MaxReaders)

TableIdle ==
    /\ arena = EmptyArena /\ allocs = <<>> /\ NoSkipList
    /\ cod = NoCoding /\ batch = NoBatch

InitMemTable ==
    /\ TableIdle
    /\ table = NewMemTable

TableRef ==
    /\ table.kind = "table"
    /\ \E h \in Holders :
         /\ MayTake(table, h)
         /\ table' = [MemTableRef(table) EXCEPT !.held[h] = @ + 1]
    /\ UNCHANGED <<arena, allocs, listVars, cod, batch>>

TableUnref ==
    /\ table.kind = "table"
    /\ \E h \in Holders :
         /\ MayDrop(table, h)
         /\ table' = [MemTableUnref(table) EXCEPT !.held[h] = @ - 1]
    /\ UNCHANGED <<arena, allocs, listVars, cod, batch>>

TableAdd ==
    /\ table.kind = "table" /\ ~table.destroyed
    /\ table.held["writer"] > 0
    /\ ~MemTableFrozen(table)
    /\ table.entries < MaxAdds
    /\ \E seq \in SequenceNumbers : table' = MemTableAdd(table, seq)
    /\ UNCHANGED <<arena, allocs, listVars, cod, batch>>

TableRequestFlush ==
    /\ table.kind = "table" /\ ~table.destroyed
    /\ table.held["writer"] > 0
    /\ ~table.flush_in_progress_
    /\ table' = MemTableFlushRequested(table)
    /\ UNCHANGED <<arena, allocs, listVars, cod, batch>>

TableCompleteFlush ==
    /\ table.kind = "table" /\ ~table.destroyed
    /\ table.held["flush"] > 0
    /\ table.flush_in_progress_ /\ ~table.flush_completed_
    /\ \E file \in FileNumbers : table' = MemTableFlushed(table, file)
    /\ UNCHANGED <<arena, allocs, listVars, cod, batch>>

NextMemTable ==
    \/ TableRef
    \/ TableUnref
    \/ TableAdd
    \/ TableRequestFlush
    \/ TableCompleteFlush

SpecMemTable == InitMemTable /\ [][NextMemTable]_vars

\* The references that holders retain.
Retained(t) == t.held["writer"] + t.held["flush"] + t.held["reader"]

\* C28: the flush state only moves forward: both flags start false,
\* flush_completed_ is never true without flush_in_progress_, a flag once
\* set stays set, the file number is recorded only by the step that
\* completes the flush, and no insert is applied once flush_in_progress_
\* is set.
C28_FlushMovesForward ==
    /\ ~table.flush_in_progress_ /\ ~table.flush_completed_ /\ table.file_number_ = 0
    /\ [](table.flush_completed_ => table.flush_in_progress_)
    /\ [](~table.flush_completed_ => table.file_number_ = 0)
    /\ [][/\ table.flush_in_progress_ => table'.flush_in_progress_
          /\ table.flush_completed_ => table'.flush_completed_
          /\ table'.file_number_ # table.file_number_ =>
               (~table.flush_completed_ /\ table'.flush_completed_)
          /\ table.flush_in_progress_ =>
               (table'.entries = table.entries /\ table'.first_seqno_ = table.first_seqno_)]_vars

\* A table with two entries has been flushed to file 9.
C28_Witness ==
    /\ table.kind = "table"
    /\ table.entries = 2
    /\ table.flush_in_progress_ /\ table.flush_completed_
    /\ table.file_number_ = 9

\* C29: the table is destroyed, and its Arena with it, only when its
\* reference count is zero and its flush has completed; never while a
\* holder retains a reference; and only by the Unref that drops the last
\* reference.
C29_DestroyedAtZeroAfterFlush ==
    /\ [](table.destroyed =>
            (table.refs_ = 0 /\ table.flush_completed_ /\ Retained(table) = 0))
    /\ []((table.arena_ = "destroyed") = table.destroyed)
    /\ [][(~table.destroyed /\ table'.destroyed) =>
            (table.refs_ = 1 /\ table'.refs_ = 0 /\ Retained(table') = Retained(table) - 1)]_vars

\* A table with two entries has been destroyed, its Arena with it, with
\* no reference left.
C29_Witness ==
    /\ table.kind = "table" /\ table.destroyed
    /\ table.arena_ = "destroyed"
    /\ table.refs_ = 0
    /\ table.entries = 2

(***************************************************************************)
(* SkipList::RandomHeight on its own: one call on any stream of draws of   *)
(* the random source.  A stream is given by its first draws; its last      *)
(* given draw repeats from then on.                                        *)
(***************************************************************************)
MaxStream == 3

\* The draws a call can consume: at most kMaxHeight - 1.
Stream(d) == AsSeq([j \in 1..(kMaxHeight - 1) |-> d[Min(j, Len(d))]])

HeightIdle ==
    /\ arena = EmptyArena /\ allocs = <<>> /\ NoSkipList
    /\ batch = NoBatch /\ table = NoTable

InitHeight ==
    /\ HeightIdle
    /\ \E n \in 1..MaxStream : \E d \in [1..n -> DrawValues] :
         cod = [kind |-> "height", phase |-> "start", draws |-> AsSeq(d), height |-> 0]

CallRandomHeight ==
    /\ cod.kind = "height" /\ cod.phase = "start"
    /\ cod' = [cod EXCEPT !.phase = "done", !.height = RandomHeight(Stream(cod.draws))]
    /\ UNCHANGED <<arena, allocs, listVars, batch, table>>

NextHeight == CallRandomHeight

SpecHeight == InitHeight /\ [][NextHeight]_vars

\* The number of leading draws of d that are multiples of m.
RECURSIVE LeadingMultiples(_, _)
LeadingMultiples(d, m) ==
    IF d # <<>> /\ d[1] % m = 0 THEN 1 + LeadingMultiples(Tail(d), m) ELSE 0

\* C32: RandomHeight returns 1 plus the number of consecutive leading draws
\* r with r mod 4 = 0, capped at kMaxHeight: the result is in 1..12, a draw
\* with r mod 4 = 0 raises the height while below the cap, and a draw with
\* r mod 4 # 0 stops the growth.
C32_HeightCountsMultiplesOfFour ==
    (cod.kind = "height" /\ cod.phase = "done") =>
        /\ cod.height \in 1..kMaxHeight
        /\ cod.height = Min(kMaxHeight, 1 + LeadingMultiples(Stream(cod.draws), 4))

====
